---- MODULE Spec2Model ----
(***************************************************************************)
(* State-machine model of the TrustLines application                       *)
(* (src/algorand/contracts/trust_lines.py).                                *)
(*                                                                         *)
(* Reading of the source.  The contract is written as PyTeal expressions.  *)
(* They are modelled as written:                                           *)
(*   - identities are ordered by the `<` of lines 54/81 (a total order);   *)
(*     here identities are the integers of Accounts;                       *)
(*   - Btoi arguments are naturals; the balance is a signed integer        *)
(*     (docstring line 7, Int(-1) on line 88), so `+`, `-`, `*` are the    *)
(*     integer operations;                                                 *)
(*   - App.localPut(a, k, v) / App.localGet(a, k) address the local state  *)
(*     of account a under key k.  A key that was never put reads as 0.     *)
(*     Local state exists only for an account that opted in, and is        *)
(*     removed when the account closes out or clears its state;            *)
(*   - an Assert that fails rejects the transaction, and a rejected        *)
(*     transaction leaves the ledger as it was;                            *)
(*   - the program is run for every application call, whatever its         *)
(*     on-completion: when it approves an UpdateApplication the ledger     *)
(*     replaces the program by the one the transaction carries, when it    *)
(*     approves a DeleteApplication the ledger removes the program and    *)
(*     the globals (the accounts that opted in keep their local state),    *)
(*     when it approves a CloseOut the ledger drops the local state of the *)
(*     sender.  After the program was replaced or removed no call of this  *)
(*     source is followed; an account can still clear its state;           *)
(*   - a PyTeal expression bound to a Python name is evaluated where it is *)
(*     used: one that reads a key reads it again after a put of that key.  *)
(***************************************************************************)
EXTENDS Integers, Sequences, FiniteSets, TLC

VARIABLES
    admin,        \* global "admin"      (line 41)
    next_tl_id,   \* global "next_tl_id" (line 42)
    optedIn,      \* accounts holding local state of the application
    local,        \* local[a]: the key/value local state of account a
    last,         \* the last transaction: the call and whether it was approved
    frozen,       \* history: the pairs whose existing line a freeze call froze
    tracking,     \* whether the history is kept in this behaviour
    program,      \* the approval program installed, or that none is left
    \* The other applications of the repository, one variable each: the
    \* ledger state of the application (its globals, the local state of
    \* its accounts, the round) and its last transaction.
    signer,       \* signer_list.py
    escrow,       \* escrow.py
    deletion,     \* account_delete.py
    deposit,      \* deposit_authorization.py
    did,          \* did_manager.py
    channel,      \* payment_channels.py
    dex,          \* dex_orders.py
    preauth       \* deposit_preauth.py

trustVars == <<admin, next_tl_id, optedIn, local, last, frozen, tracking, program>>

(* The applications other than TrustLines.  Each specification below is    *)
(* the deployment of one application; the others are not deployed.         *)
extVars == <<signer, escrow, deletion, deposit, did, channel, dex, preauth>>

vars == <<trustVars, extVars>>

NotDeployed == <<>>

----------------------------------------------------------------------------
(* Bounds of the model *)

MaxLimit   == 1    \* largest credit limit a caller passes
MaxAmount  == 1    \* largest amount a caller passes to send / settle
MaxBalance == 2    \* |balance| explored (settle is otherwise unbounded)
MaxCreates == 2    \* successful creates explored (next_tl_id is unbounded)

Accounts == {1, 2, 3}
AssetIds == {7}
Creator  == 1      \* the identity that deploys the application

(* The (caller, other party) pairs of the calls explored: account 1 with   *)
(* each of the others, the pair (1, 2) from both sides, and a self pair.   *)
CallPairs == {<<1, 2>>, <<2, 1>>, <<1, 3>>, <<1, 1>>}

(* The limits callers pass: every pair of positive limits, and a zero on   *)
(* either side.                                                            *)
LimitArgs == ((1..MaxLimit) \X (1..MaxLimit)) \cup {<<0, 1>>, <<1, 0>>}

(* The senders of the other transactions of the caller's atomic group.     *)
GroupOthers == {{}, {2}, {3}}

(* The values callers pass as quality factors, and as hop arguments (0 is  *)
(* an argument that is not a 32-byte identity).                            *)
QualityVals == {0, 500000, 1000001}

(* The ripple calls explored: <<caller, hop count, amount, hop arguments>>. *)
RippleCalls == {
    <<2, 1, 2, <<1>>>>,
    <<2, 2, 3, <<1, 3>>>>,
    <<2, 3, 1000, <<1, 3, 1>>>>,
    <<3, 6, 1, <<1, 2, 1, 2, 1, 2>>>>,
    <<2, 0, 1, <<>>>>,
    <<2, 7, 1, <<1, 3, 1, 3, 1, 3, 1>>>>,
    <<2, 1, 0, <<1>>>>,
    <<2, 1, 1, <<0>>>>,
    <<2, 2, 1, <<1>>>> }

(* The accounts that opt in and out: the low account of every pair.        *)
LocalHolders == {1}

(* Program constants *)
QualityParity == 1000000
MaxHops       == 6
AddrLen       == 32
DecayNum      == 999000
DecayDen      == 1000000

----------------------------------------------------------------------------
(* Local state: a function from the keys that were put to their values *)

NoKeys == [k \in {} |-> 0]

LocalGet(a, k) == IF k \in DOMAIN local[a] THEN local[a][k] ELSE 0

Put(f, k, v) == [x \in (DOMAIN f) \cup {k} |-> IF x = k THEN v ELSE f[x]]

(* Lines 54-55, 81-82, 119, 126, 134, 141, 147, 153, 170: the low / high   *)
(* account of the pair made of the caller and the other party.             *)
Account1(s, c) == IF s < c THEN s ELSE c

(* A faulty account2: the other party of the call, whoever is higher.     *)
Account2Counterparty(s, c) == c

Account2(s, c) == IF s < c THEN c ELSE s

(* The record create_trust_line writes for the pair (lo, hi) is stored.    *)
HasLine(lo, hi) ==
    /\ "account1" \in DOMAIN local[lo]
    /\ local[lo]["account1"] = lo
    /\ local[lo]["account2"] = hi

NoCall == [op |-> "init", oc |-> "NoOp", ok |-> TRUE, sender |-> Creator,
           cp |-> Creator, args |-> <<>>, group |-> {}]

(* What is recorded of a transaction: an approved one with its             *)
(* on-completion and its call, a rejected one as rejected.                 *)
Call(oc, op, ok, s, c, args, g) ==
    IF ok THEN [op |-> op, oc |-> oc, ok |-> TRUE, sender |-> s, cp |-> c,
                args |-> args, group |-> g]
          ELSE [op |-> op, oc |-> "NoOp", ok |-> FALSE, sender |-> 0, cp |-> 0,
                args |-> <<>>, group |-> {}]

(* Lines 176-191: the Cond tests the on-completion for OptIn (line 178)    *)
(* and CloseOut (line 181) only.  The handlers of lines 182-190 run under  *)
(* every other on-completion; create and send (lines 179-180) come before  *)
(* the CloseOut test and run under CloseOut as well.                       *)
Completions == {"NoOp", "UpdateApplication", "DeleteApplication"}

EarlyCompletions == Completions \cup {"CloseOut"}

(* A transaction is approved when its handler returns 1 and the ledger can *)
(* carry out its on-completion: a CloseOut needs a sender that opted in.   *)
Approved(oc, ok, s) == ok /\ (oc = "CloseOut" => s \in optedIn)

(* The end of a handler call.  A rejected call changes nothing.  An        *)
(* approved one leaves the administrator adm, the counter n and the local  *)
(* states loc, and then the ledger carries out the on-completion: CloseOut *)
(* drops the local state of the sender, DeleteApplication removes the      *)
(* program and the globals (they then read as 0) and leaves the local      *)
(* state of the accounts that opted in with them, UpdateApplication        *)
(* replaces the program.  ocs are the on-completions                       *)
(* under which the Cond reaches the handler; a call the handler rejects    *)
(* leaves the same state under each of them and is taken once, as a NoOp   *)
(* call.                                                                   *)
Complete(ocs, op, ok, s, c, args, g, adm, n, loc) ==
    /\ program = "approval"
    /\ \E oc \in (IF ok THEN ocs ELSE {"NoOp"}) :
        LET done    == Approved(oc, ok, s)
            deleted == done /\ oc = "DeleteApplication"
            closed  == done /\ oc = "CloseOut"
        IN
        /\ program' = IF deleted THEN "deleted"
                       ELSE IF done /\ oc = "UpdateApplication" THEN "replaced"
                       ELSE program
        /\ admin' = IF deleted THEN 0 ELSE IF done THEN adm ELSE admin
        /\ next_tl_id' = IF deleted THEN 0 ELSE IF done THEN n ELSE next_tl_id
        /\ optedIn' = IF closed THEN optedIn \ {s} ELSE optedIn
        /\ local' = IF closed THEN [loc EXCEPT ![s] = NoKeys]
                     ELSE IF done THEN loc
                     ELSE local
        /\ last' = Call(oc, op, done, s, c, args, g)
        /\ UNCHANGED <<tracking, extVars>>

(* Line 64: Itob, the 8-byte big-endian encoding of a uint64.  The values *)
(* explored are below 2^32, so the four high bytes are 0.                  *)
Itob(n) == [i \in 1..8 |-> IF i <= 4 THEN 0 ELSE (n \div (256 ^ (8 - i))) % 256]

(* Line 49: Btoi, the uint64 that 8 big-endian bytes encode.  The four    *)
(* high bytes of the values explored are 0.                               *)
Btoi(b) == (b[5] * (256 ^ 3)) + (b[6] * (256 ^ 2)) + (b[7] * 256) + b[8]

(* Global.group_size() *)
GroupSize(g) == 1 + Cardinality(g)

(* No other application is deployed.                                       *)
ExtNotDeployed ==
    /\ signer = NotDeployed
    /\ escrow = NotDeployed
    /\ deletion = NotDeployed
    /\ deposit = NotDeployed
    /\ did = NotDeployed
    /\ channel = NotDeployed
    /\ dex = NotDeployed
    /\ preauth = NotDeployed

(* Lines 40-44: on_creation *)
Init ==
    /\ admin = Creator
    /\ next_tl_id = 0
    /\ optedIn = {}
    /\ local = [a \in Accounts |-> NoKeys]
    /\ last = NoCall
    /\ frozen = {}
    /\ tracking = FALSE
    /\ program = "approval"
    /\ ExtNotDeployed

(* The same start, with the history of freezes kept.                       *)
InitFrozen ==
    /\ admin = Creator
    /\ next_tl_id = 0
    /\ optedIn = {}
    /\ local = [a \in Accounts |-> NoKeys]
    /\ last = NoCall
    /\ frozen = {}
    /\ tracking = TRUE
    /\ program = "approval"
    /\ ExtNotDeployed

----------------------------------------------------------------------------
(* Line 178: an OptIn transaction is approved whatever its arguments; the  *)
(* ledger then allocates the sender's (empty) local state.                 *)
OptIn(s) ==
    LET ok == s \notin optedIn
    IN  /\ program = "approval"
        /\ optedIn' = IF ok THEN optedIn \cup {s} ELSE optedIn
        /\ last' = Call("OptIn", "optin", ok, s, s, <<>>, {})
        /\ UNCHANGED <<admin, next_tl_id, local, frozen, tracking, program, extVars>>

(* Line 181: a CloseOut transaction whose first argument is neither        *)
(* "create" nor "send" is approved without a handler; the ledger then      *)
(* drops the sender's local state.                                         *)
CloseOut(s) ==
    LET ok == s \in optedIn
    IN  /\ program = "approval"
        /\ optedIn' = IF ok THEN optedIn \ {s} ELSE optedIn
        /\ local' = IF ok THEN [local EXCEPT ![s] = NoKeys] ELSE local
        /\ last' = Call("CloseOut", "closeout", ok, s, s, <<>>, {})
        /\ UNCHANGED <<admin, next_tl_id, frozen, tracking, program, extVars>>

(* Lines 195-196: clear_state_program.  The ledger clears the local state  *)
(* of an account that opted in whatever program is installed, and after    *)
(* the application was deleted as well.                                    *)
ClearState(s) ==
    LET ok == s \in optedIn
    IN  /\ optedIn' = IF ok THEN optedIn \ {s} ELSE optedIn
        /\ local' = IF ok THEN [local EXCEPT ![s] = NoKeys] ELSE local
        /\ last' = Call("ClearState", "clear", ok, s, s, <<>>, {})
        /\ UNCHANGED <<admin, next_tl_id, frozen, tracking, program, extVars>>

----------------------------------------------------------------------------
(* A faulty create_trust_line: the assert on the two parties is missing.  *)
create_ok_allow_self(s, c, l1, l2) ==
    /\ l1 > 0
    /\ l2 > 0
    /\ Account1(s, c) \in optedIn

(* Lines 46-74: create_trust_line *)
create_ok(s, c, l1, l2) ==
    /\ l1 > 0
    /\ l2 > 0
    /\ s # c
    /\ Account1(s, c) \in optedIn

create_local(s, c, asset, l1, l2, r) ==
    LET a1 == Account1(s, c)
        a2 == Account2(s, c)
        f1 == Put(local[a1], "account1", a1)
        f2 == Put(f1, "account2", a2)
        f3 == Put(f2, "asset_id", Itob(asset))
        f4 == Put(f3, "limit1", l1)
        f5 == Put(f4, "limit2", l2)
        f6 == Put(f5, "balance", 0)
        f7 == Put(f6, "q_in", QualityParity)
        f8 == Put(f7, "q_out", QualityParity)
        f9 == Put(f8, "ripple", r)
    IN  [local EXCEPT ![a1] = f9]

CreateTrustLine(s, c, asset, l1, l2, r) ==
    /\ next_tl_id < MaxCreates
    /\ Complete(EarlyCompletions, "create", create_ok(s, c, l1, l2), s, c, <<asset, l1, l2, r>>, {},
                admin, next_tl_id + 1, create_local(s, c, asset, l1, l2, r))
    /\ UNCHANGED frozen

(* A faulty direction: the balance rises whichever party sends.           *)
send_direction_forward(s, r) == 1

(* A faulty send_payment: the asserts on the two limits are missing.      *)
send_ok_no_limit(s, r, amount) ==
    /\ amount > 0
    /\ s # r
    /\ Account1(s, r) \in optedIn

(* Lines 76-102: send_payment *)
send_direction(s, r) == IF s = Account1(s, r) THEN 1 ELSE -1

send_new_balance(s, r, amount) ==
    LocalGet(Account1(s, r), "balance") + (amount * send_direction(s, r))

send_ok(s, r, amount) ==
    LET a1 == Account1(s, r)
        nb == send_new_balance(s, r, amount)
    IN  /\ amount > 0
        /\ s # r
        /\ \/ (nb >= 0 /\ nb <= LocalGet(a1, "limit1"))
           \/ (nb < 0 /\ nb >= 0 - LocalGet(a1, "limit2"))
        /\ a1 \in optedIn

send_local(s, r, amount) ==
    LET a1 == Account1(s, r)
    IN  [local EXCEPT ![a1] = Put(local[a1], "balance", send_new_balance(s, r, amount))]

SendPayment(s, r, amount) ==
    /\ Complete(EarlyCompletions, "send", send_ok(s, r, amount), s, r, <<amount>>, {},
                admin, next_tl_id, send_local(s, r, amount))
    /\ UNCHANGED frozen

(* A faulty length check: a hop argument of any length passes.            *)
HopLenAny(h) == AddrLen

(* Lines 104-112: send_rippling.  hops are the arguments 3.. of the call.  *)
HopLen(h) == IF h \in Accounts THEN AddrLen ELSE 0

ripple_ok(num_hops, amount, hops) ==
    /\ num_hops > 0
    /\ num_hops <= MaxHops
    /\ amount > 0
    /\ \A k \in 1..MaxHops :
          num_hops >= k => (k <= Len(hops) /\ HopLen(hops[k]) = AddrLen)

(* The scratch slot current_amount when the call returns *)
ripple_current_amount(num_hops, amount) ==
    IF num_hops >= 1 THEN (amount * DecayNum) \div DecayDen ELSE amount

SendRippling(s, num_hops, amount, hops) ==
    /\ Complete(Completions, "ripple", ripple_ok(num_hops, amount, hops), s, s,
                <<num_hops, amount>> \o hops, {}, admin, next_tl_id, local)
    /\ UNCHANGED frozen

(* A faulty update_quality: the asserts on the upper bound are missing.   *)
quality_ok_no_upper(s, c, qi, qo) ==
    /\ qi > 0
    /\ qo > 0
    /\ Account1(s, c) \in optedIn

(* Lines 114-120: update_quality *)
quality_ok(s, c, qi, qo) ==
    /\ qi > 0
    /\ qi <= QualityParity
    /\ qo > 0
    /\ qo <= QualityParity
    /\ Account1(s, c) \in optedIn

quality_local(s, c, qi, qo) ==
    LET a1 == Account1(s, c)
    IN  [local EXCEPT ![a1] = Put(Put(local[a1], "q_in", qi), "q_out", qo)]

UpdateQuality(s, c, qi, qo) ==
    /\ Complete(Completions, "quality", quality_ok(s, c, qi, qo), s, c, <<qi, qo>>, {},
                admin, next_tl_id, quality_local(s, c, qi, qo))
    /\ UNCHANGED frozen

(* A faulty update_rippling: switching the flag off also zeroes the       *)
(* limits, as a freeze does.                                              *)
rippling_local_limits(s, c, r) ==
    LET a1 == Account1(s, c)
    IN  [local EXCEPT ![a1] =
            IF r = 0 THEN Put(Put(Put(local[a1], "ripple", 0), "limit1", 0), "limit2", 0)
                     ELSE Put(local[a1], "ripple", r)]

(* Lines 122-127: update_rippling *)
rippling_ok(s, c, r) ==
    /\ (r = 0 \/ r = 1)
    /\ Account1(s, c) \in optedIn

rippling_local(s, c, r) ==
    LET a1 == Account1(s, c)
    IN  [local EXCEPT ![a1] = Put(local[a1], "ripple", r)]

UpdateRippling(s, c, r) ==
    /\ Complete(Completions, "ripple_set", rippling_ok(s, c, r), s, c, <<r>>, {},
                admin, next_tl_id, rippling_local(s, c, r))
    /\ UNCHANGED frozen

(* A faulty update_limits: the assert on the current balance is missing.  *)
limits_ok_no_exposure(s, c, l1, l2, g) ==
    /\ l1 > 0
    /\ l2 > 0
    /\ GroupSize(g) >= 2
    /\ Account1(s, c) \in optedIn

(* Lines 129-136: update_limits *)
limits_ok(s, c, l1, l2, g) ==
    LET cur == LocalGet(Account1(s, c), "balance")
    IN  /\ l1 > 0
        /\ l2 > 0
        /\ \/ (cur >= 0 /\ l1 >= cur)
           \/ (cur < 0 /\ l2 >= 0 - cur)
        /\ GroupSize(g) >= 2
        /\ Account1(s, c) \in optedIn

limits_local(s, c, l1, l2) ==
    LET a1 == Account1(s, c)
    IN  [local EXCEPT ![a1] = Put(Put(local[a1], "limit1", l1), "limit2", l2)]

UpdateLimits(s, c, l1, l2, g) ==
    /\ Complete(Completions, "limits", limits_ok(s, c, l1, l2, g), s, c, <<l1, l2>>, g,
                admin, next_tl_id, limits_local(s, c, l1, l2))
    /\ UNCHANGED frozen

(* A faulty freeze_trust_line: the assert on the sender is missing.       *)
freeze_ok_anyone(s, c) == Account1(s, c) \in optedIn

(* A faulty freeze_trust_line: the balance is zeroed with the limits.     *)
freeze_local_reset(s, c) ==
    LET a1 == Account1(s, c)
    IN  [local EXCEPT ![a1] =
            Put(Put(Put(Put(local[a1], "ripple", 0), "limit1", 0), "limit2", 0),
                "balance", 0)]

(* Lines 138-142: freeze_trust_line *)
freeze_ok(s, c) ==
    /\ s = admin
    /\ Account1(s, c) \in optedIn

freeze_local(s, c) ==
    LET a1 == Account1(s, c)
    IN  [local EXCEPT ![a1] =
            Put(Put(Put(local[a1], "ripple", 0), "limit1", 0), "limit2", 0)]

FreezeTrustLine(s, c) ==
    /\ Complete(Completions, "freeze", freeze_ok(s, c), s, c, <<>>, {},
                admin, next_tl_id, freeze_local(s, c))
    /\ frozen' = IF tracking /\ freeze_ok(s, c) /\ HasLine(Account1(s, c), Account2(s, c))
                    THEN frozen \cup {<<Account1(s, c), Account2(s, c)>>}
                    ELSE frozen

(* A faulty get_balance: the read initialises the balance it reads.       *)
GetBalanceTouch(s, c) ==
    /\ Complete(Completions, "balance", TRUE, s, c, <<>>, {}, admin, next_tl_id,
                IF Account1(s, c) \in optedIn
                    THEN [local EXCEPT ![Account1(s, c)] =
                             Put(local[Account1(s, c)], "balance", 0)]
                    ELSE local)
    /\ UNCHANGED frozen

(* Lines 144-148: get_balance *)
GetBalance(s, c) ==
    /\ Complete(Completions, "balance", TRUE, s, c, <<>>, {}, admin, next_tl_id, local)
    /\ UNCHANGED frozen

(* Lines 150-159: get_available_credit *)
credit_ok(s, c) ==
    LET a1  == Account1(s, c)
        cur == LocalGet(a1, "balance")
        l1  == LocalGet(a1, "limit1")
        l2  == LocalGet(a1, "limit2")
        available_1 == IF cur >= 0 THEN l1 - cur ELSE l1
        available_2 == IF cur <= 0 THEN l2 + cur ELSE l2
    IN  /\ available_1 >= 0
        /\ available_2 >= 0
        /\ a1 \in optedIn

GetAvailableCredit(s, c) ==
    /\ Complete(Completions, "credit", credit_ok(s, c), s, c, <<>>, {}, admin, next_tl_id, local)
    /\ UNCHANGED frozen

(* Lines 161-164: asa_opt_in *)
AsaOptIn(s, asset) ==
    /\ Complete(Completions, "asa_opt", asset > 0, s, s, <<asset>>, {}, admin, next_tl_id, local)
    /\ UNCHANGED frozen

(* Lines 166-174: settle_with_asa *)
settle_new_balance(s, c, amount) ==
    LocalGet(Account1(s, c), "balance") - (amount * send_direction(s, c))

settle_ok(s, c, amount, g) ==
    /\ amount > 0
    /\ GroupSize(g) >= 2
    /\ Account1(s, c) \in optedIn

settle_local(s, c, amount) ==
    LET a1 == Account1(s, c)
    IN  [local EXCEPT ![a1] = Put(local[a1], "balance", settle_new_balance(s, c, amount))]

SettleWithAsa(s, c, amount, g) ==
    LET nb == settle_new_balance(s, c, amount)
    IN  /\ nb >= 0 - MaxBalance /\ nb <= MaxBalance
        /\ Complete(Completions, "settle", settle_ok(s, c, amount, g), s, c, <<amount>>, g,
                    admin, next_tl_id, settle_local(s, c, amount))
        /\ UNCHANGED frozen

----------------------------------------------------------------------------
(* Lines 176-191: the dispatch of approval_program *)
Next ==
    \/ \E s \in LocalHolders : OptIn(s)
    \/ \E s \in LocalHolders : CloseOut(s)
    \/ \E s \in LocalHolders : ClearState(s)
    \/ \E p \in CallPairs, asset \in AssetIds, l \in LimitArgs,
          r \in {0, 1} :
            CreateTrustLine(p[1], p[2], asset, l[1], l[2], r)
    \/ \E p \in CallPairs, amount \in 0..MaxAmount :
          SendPayment(p[1], p[2], amount)
    \/ \E c \in RippleCalls : SendRippling(c[1], c[2], c[3], c[4])
    \/ \E p \in CallPairs, qi, qo \in QualityVals :
          UpdateQuality(p[1], p[2], qi, qo)
    \/ \E p \in CallPairs, r \in {0, 1, 2} :
          UpdateRippling(p[1], p[2], r)
    \/ \E p \in CallPairs, l \in LimitArgs, g \in GroupOthers :
          UpdateLimits(p[1], p[2], l[1], l[2], g)
    \/ \E p \in CallPairs : FreezeTrustLine(p[1], p[2])
    \/ \E p \in CallPairs : GetBalance(p[1], p[2])
    \/ \E p \in CallPairs : GetAvailableCredit(p[1], p[2])
    \/ \E s \in Accounts, asset \in AssetIds \cup {0} :
          AsaOptIn(s, asset)
    \/ \E p \in CallPairs, amount \in 0..MaxAmount, g \in GroupOthers :
          SettleWithAsa(p[1], p[2], amount, g)

Spec == Init /\ [][Next]_vars

SpecFrozen == InitFrozen /\ [][Next]_vars

----------------------------------------------------------------------------
(* Vocabulary of the properties below.                                     *)

(* The handlers of lines 179-190, and the operation a transaction is: the  *)
(* handler it runs when it is a plain call (on-completion NoOp), or "init" *)
(* for the creation, "optin", "closeout" and "clear" for a transaction     *)
(* that runs no handler; a handler call with another on-completion is the  *)
(* CloseOut, UpdateApplication or DeleteApplication that it requests.      *)
Handlers == {"create", "send", "ripple", "quality", "ripple_set", "limits", "freeze",
             "balance", "credit", "asa_opt", "settle"}

Operation == IF last.op \in Handlers /\ last.oc # "NoOp" THEN last.oc ELSE last.op

(* The low and the high identity of a pair, and the value a key reads as   *)
(* in a given local-state map.                                             *)
MinId(p, q) == IF p < q THEN p ELSE q
MaxId(p, q) == IF p < q THEN q ELSE p
Val(loc, a, k) == IF k \in DOMAIN loc[a] THEN loc[a][k] ELSE 0

(* The calls that are addressed to the pair (caller, other party).         *)
PairOps == {"create", "send", "quality", "ripple_set", "limits", "freeze", "settle"}

(* A ripple call <<n, amount, hop 1, ..., hop n>> by s: the amount that    *)
(* reaches hop k, the chain of payers, and whether hop k (the payment from *)
(* the k-th to the k+1-st member of the chain) passes the check of send.   *)
RECURSIVE Forwarded(_, _)
Forwarded(amount, k) ==
    IF k = 0 THEN amount ELSE (Forwarded(amount, k - 1) * DecayNum) \div DecayDen

RippleChain(c) == <<c.sender>> \o SubSeq(c.args, 3, 2 + c.args[1])

HopAdmissible(c, k) ==
    send_ok(RippleChain(c)[k], RippleChain(c)[k + 1], Forwarded(c.args[2], k))

AllHopsAdmissible(c) == \A k \in 1..c.args[1] : HopAdmissible(c, k)

HopLow(c, k) == MinId(RippleChain(c)[k], RippleChain(c)[k + 1])

----------------------------------------------------------------------------
(* C1: after any sequence of approved operations, the balance of every     *)
(* stored trust line satisfies -limit_hi <= balance <= limit_lo.           *)
C1_BalanceWithinLimits ==
    \A a \in Accounts :
        "account1" \in DOMAIN local[a] =>
            /\ 0 - local[a]["limit2"] <= local[a]["balance"]
            /\ local[a]["balance"] <= local[a]["limit1"]

(* C2: a ripple call with a hop that fails the admissibility check is      *)
(* rejected, and a ripple call never leaves a part of its hops applied:    *)
(* an approved ripple had every hop admissible, a rejected one changes no  *)
(* trust line.                                                             *)
C2_RippleAllOrNothing ==
    [][ Operation' = "ripple" =>
            /\ last'.ok => AllHopsAdmissible(last')
            /\ (~last'.ok) => local' = local ]_vars

(* C3: send is approved only when amount > 0, sender # recipient, the line *)
(* of the canonical pair exists and the new balance lies within            *)
(* [-limit_hi, limit_lo]; it then sets the balance to the new balance and  *)
(* changes nothing else.                                                   *)
C3_SendExactly ==
    [][ (Operation' = "send" /\ last'.ok) =>
            LET s   == last'.sender
                r   == last'.cp
                amt == last'.args[1]
                lo  == MinId(s, r)
                nb  == Val(local, lo, "balance") + amt * (IF s = lo THEN 1 ELSE -1)
            IN  /\ amt > 0
                /\ s # r
                /\ HasLine(lo, MaxId(s, r))
                /\ 0 - Val(local, lo, "limit2") <= nb
                /\ nb <= Val(local, lo, "limit1")
                /\ local' = [local EXCEPT ![lo] = [local[lo] EXCEPT !["balance"] = nb]]
                /\ next_tl_id' = next_tl_id ]_vars

(* C4: an approved ripple whose hops all pass validation changes the       *)
(* balance of the trust line of each hop.                                  *)
C4_RippleCommits ==
    [][ (Operation' = "ripple" /\ last'.ok /\ AllHopsAdmissible(last')) =>
            \A k \in 1..last'.args[1] :
                Val(local', HopLow(last', k), "balance")
                    # Val(local, HopLow(last', k), "balance") ]_vars

(* C5: create on a canonical pair that already has a record is rejected.   *)
C5_CreateOnce ==
    [][ (Operation' = "create" /\ last'.ok) =>
            ~HasLine(MinId(last'.sender, last'.cp), MaxId(last'.sender, last'.cp)) ]_vars

(* C6: an approved operation on the pair (p, q) leaves the record of every *)
(* other canonical pair unchanged.                                         *)
C6_PairPartition ==
    [][ (last'.ok /\ Operation' \in PairOps /\ last'.sender # last'.cp) =>
            \A lo, hi \in Accounts :
                (/\ HasLine(lo, hi)
                 /\ <<lo, hi>> # <<MinId(last'.sender, last'.cp),
                                   MaxId(last'.sender, last'.cp)>>)
                    => local'[lo] = local[lo] ]_vars

(* C7: the pair of a call does not depend on which party calls, every     *)
(* stored record is held by its low account with account1 < account2, a   *)
(* create by either party stores the record of the pair under the low     *)
(* one, and an approved operation on a pair writes no local state but the *)
(* one of the pair's low account.                                         *)
C7_StoredRoles ==
    /\ \A p, q \in Accounts :
          p # q => /\ Account1(p, q) = Account1(q, p)
                   /\ Account2(p, q) = Account2(q, p)
                   /\ Account1(p, q) < Account2(p, q)
    /\ \A a \in Accounts :
          "account1" \in DOMAIN local[a] =>
              /\ local[a]["account1"] = a
              /\ local[a]["account1"] < local[a]["account2"]
    /\ (Operation = "create" /\ last.ok) =>
          HasLine(MinId(last.sender, last.cp), MaxId(last.sender, last.cp))

C7_CanonicalAddressing ==
    /\ []C7_StoredRoles
    /\ [][ (last'.ok /\ Operation' \in PairOps) =>
              \A a \in Accounts \ {MinId(last'.sender, last'.cp)} :
                  local'[a] = local[a] ]_vars

(* A create called by the high party of the pair (1, 2) was approved.      *)
C7_Witness ==
    /\ Operation = "create" /\ last.ok
    /\ last.sender = 2 /\ last.cp = 1
    /\ HasLine(1, 2)

C9_FrozenSendFails ==
    [][ (Operation' = "send" /\ last'.ok) =>
            <<MinId(last'.sender, last'.cp), MaxId(last'.sender, last'.cp)>>
                \notin frozen ]_vars

(* C10: once a freeze of the pair was approved, both limits of its line    *)
(* are 0 in every later state.                                             *)
C10_FrozenLimitsStayZero ==
    \A pr \in frozen :
        Val(local, pr[1], "limit1") = 0 /\ Val(local, pr[1], "limit2") = 0

----------------------------------------------------------------------------
(* The fields of a record that a freeze writes, and an approved freeze of  *)
(* an existing line of the pair (1, 2).                                    *)
FreezeKeys == {"ripple", "limit1", "limit2"}

(* C11: once a freeze of the pair was approved, the rippling flag of its   *)
(* line is 0 (false) in every later state.                                 *)
C11_FrozenRipplingStaysOff ==
    \A pr \in frozen : Val(local, pr[1], "ripple") = 0

(* C12: a freeze is approved only when its caller is the administrator,    *)
(* who is the identity that deployed the application; a freeze that is     *)
(* rejected changes no trust line.                                         *)
C12_FreezeAdminOnly ==
    [][ last'.op = "freeze" =>
            /\ admin = Creator
            /\ last'.ok => last'.sender = admin
            /\ (~last'.ok) => local' = local ]_vars

(* A freeze of the existing line (1, 2) was rejected: the admin is 1 and   *)
(* holds local state, so the caller was the other party.                   *)
C12_Witness ==
    /\ Operation = "freeze" /\ ~last.ok
    /\ HasLine(1, 2)
    /\ 1 \in optedIn
    /\ local[1]["limit1"] > 0

(* C13: an approved freeze sets limit1 = limit2 = 0 and the rippling flag  *)
(* to 0 in the record of the pair's low account, and leaves every other    *)
(* field of it (balance, asset, qualities, the two identities) and the     *)
(* creation counter as they were.                                          *)
C13_FreezeEffect ==
    [][ (Operation' = "freeze" /\ last'.ok) =>
            LET lo == MinId(last'.sender, last'.cp)
            IN  /\ \A k \in FreezeKeys : Val(local', lo, k) = 0
                /\ DOMAIN local'[lo] = (DOMAIN local[lo]) \cup FreezeKeys
                /\ \A k \in (DOMAIN local[lo]) \ FreezeKeys :
                      local'[lo][k] = local[lo][k]
                /\ next_tl_id' = next_tl_id ]_vars

(* A freeze of the line (1, 2) was approved while its balance is not 0.    *)
C13_Witness ==
    /\ Operation = "freeze" /\ last.ok
    /\ HasLine(1, 2)
    /\ local[1]["balance"] # 0
    /\ local[1]["limit1"] = 0 /\ local[1]["limit2"] = 0 /\ local[1]["ripple"] = 0
    /\ local[1]["q_in"] = QualityParity

(* The parties that authorized a call: its sender and the senders of the   *)
(* other transactions of its atomic group.                                 *)
Signers(c) == {c.sender} \cup c.group

(* C14: a limits call is approved only when both parties of the pair have  *)
(* authorized it.                                                          *)
C14_LimitsJointlyAuthorized ==
    [][ (Operation' = "limits" /\ last'.ok) =>
            {last'.sender, last'.cp} \subseteq Signers(last') ]_vars

(* C15: a limits call is approved only when both new limits are positive   *)
(* and the side that carries the current balance still covers it; it then  *)
(* stores the two limits, leaves the balance alone, and the balance lies   *)
(* within [-limit2, limit1] right after it.                                *)
C15_LimitsCoverExposure ==
    [][ (Operation' = "limits" /\ last'.ok) =>
            LET lo  == MinId(last'.sender, last'.cp)
                l1  == last'.args[1]
                l2  == last'.args[2]
                cur == Val(local, lo, "balance")
            IN  /\ l1 > 0 /\ l2 > 0
                /\ cur >= 0 => l1 >= cur
                /\ cur < 0 => l2 >= 0 - cur
                /\ Val(local', lo, "limit1") = l1
                /\ Val(local', lo, "limit2") = l2
                /\ Val(local', lo, "balance") = cur
                /\ 0 - l2 <= Val(local', lo, "balance")
                /\ Val(local', lo, "balance") <= l1 ]_vars

(* A limits call on the line (1, 2) was approved while the line carries a  *)
(* balance, which the new limit just covers.                               *)
C15_Witness ==
    /\ Operation = "limits" /\ last.ok
    /\ HasLine(1, 2)
    /\ local[1]["balance"] # 0
    /\ \/ local[1]["balance"] = local[1]["limit1"]
       \/ local[1]["balance"] = 0 - local[1]["limit2"]

(* The amounts tried against a line in the two properties below.           *)
DrawAmounts == 1..(MaxBalance + MaxLimit)

(* C16: the high party of a line can draw on it: a send from the high to   *)
(* the low party whose amount takes the balance below zero, but not below  *)
(* -limit2, passes the checks of send (so on a balance of 0 every amount   *)
(* in 1..limit2 does) and gives balance - amount.                          *)
C16_HighPartyCanDraw ==
    \A lo, hi \in Accounts :
        HasLine(lo, hi) =>
            \A a \in DrawAmounts :
                LET nb == local[lo]["balance"] - a
                IN  (nb < 0 /\ nb >= 0 - local[lo]["limit2"]) =>
                        /\ send_ok(hi, lo, a)
                        /\ send_new_balance(hi, lo, a) = nb

(* C16, continued: every approved send by the high party lowers the stored *)
(* balance by the amount, and a negative result is not below -limit2.      *)
C16_SignedCredit ==
    /\ []C16_HighPartyCanDraw
    /\ [][ (Operation' = "send" /\ last'.ok /\ last'.sender > last'.cp) =>
              LET lo == last'.cp
              IN  /\ Val(local', lo, "balance")
                        = Val(local, lo, "balance") - last'.args[1]
                  /\ Val(local', lo, "balance") < 0
                        => Val(local', lo, "balance") >= 0 - Val(local, lo, "limit2")
          ]_vars

(* The high party of the line (1, 2) sent to the low party and took the    *)
(* balance from 0 to -limit2.                                              *)
C16_Witness ==
    /\ Operation = "send" /\ last.ok
    /\ last.sender = 2 /\ last.cp = 1
    /\ HasLine(1, 2)
    /\ local[1]["limit2"] > 0
    /\ local[1]["balance"] = 0 - local[1]["limit2"]

(* C17: after an approved send of x from A to B on the line of A and B,    *)
(* the send of x from B to A passes the checks of send and gives back the  *)
(* balance the line had before the first send.                             *)
C17_SendRoundTrip ==
    [][ \A s, r \in Accounts, x \in DrawAmounts :
            (/\ Operation' = "send" /\ last'.ok
             /\ last'.sender = s /\ last'.cp = r /\ last'.args[1] = x
             /\ HasLine(MinId(s, r), MaxId(s, r))) =>
                /\ send_ok(r, s, x)'
                /\ send_new_balance(r, s, x)' = Val(local, MinId(s, r), "balance")
      ]_vars

(* C18: the decay is applied once per hop: the amount an approved ripple   *)
(* of n hops ends with is the one that n floor decays of 999000/1000000    *)
(* leave (1000 over 3 hops: 999, 998, 997), or n - 1 decays if the first   *)
(* hop carries the undecayed amount (forwarded[0] = amount).               *)
C18_DecayPerHop ==
    [][ (Operation' = "ripple" /\ last'.ok) =>
            ripple_current_amount(last'.args[1], last'.args[2])
                \in { Forwarded(last'.args[2], last'.args[1]),
                      Forwarded(last'.args[2], last'.args[1] - 1) } ]_vars

(* The high identity of hop k of a ripple call, and the hops that lie      *)
(* between two intermediaries of the chain (neither the first hop, paid by *)
(* the caller, nor the last, paid to the final recipient).                 *)
HopHigh(c, k) == MaxId(RippleChain(c)[k], RippleChain(c)[k + 1])

InnerHops(c) == 2..(c.args[1] - 1)

(* C19: a ripple is approved only if no intermediate hop runs over a       *)
(* stored line whose rippling flag is 0.                                   *)
C19_RipplingFlagChecked ==
    [][ (Operation' = "ripple" /\ last'.ok) =>
            \A k \in InnerHops(last') :
                HasLine(HopLow(last', k), HopHigh(last', k)) =>
                    local[HopLow(last', k)]["ripple"] # 0 ]_vars

(* C20: a ripple is approved only when its hop count is in 1..6, its       *)
(* amount is positive and each of the hop_count hop arguments is present   *)
(* and is an identity; a rejected ripple changes nothing.                  *)
C20_RippleValidated ==
    [][ last'.op = "ripple" =>
            /\ last'.ok =>
                  /\ last'.args[1] >= 1
                  /\ last'.args[1] <= 6
                  /\ last'.args[2] > 0
                  /\ Len(last'.args) >= 2 + last'.args[1]
                  /\ \A k \in 1..last'.args[1] : last'.args[2 + k] \in Accounts
            /\ (~last'.ok) =>
                  /\ local' = local
                  /\ next_tl_id' = next_tl_id
                  /\ admin' = admin
                  /\ optedIn' = optedIn ]_vars

(* A ripple was rejected while a trust line is stored.                     *)
C20_Witness ==
    /\ Operation = "ripple" /\ ~last.ok
    /\ HasLine(1, 2)
    /\ local[1]["limit1"] > 0

----------------------------------------------------------------------------
(* C21: a create is approved only with limit1 > 0, limit2 > 0 and two      *)
(* different parties; the record it stores has balance 0, both qualities   *)
(* 1,000,000, the limits, the asset id and the rippling flag of the call,  *)
(* and the creation counter has grown by 1.                                *)
C21_CreateEffect ==
    [][ (Operation' = "create" /\ last'.ok) =>
            LET lo  == MinId(last'.sender, last'.cp)
                rec == local'[lo]
            IN  /\ last'.args[2] > 0
                /\ last'.args[3] > 0
                /\ last'.sender # last'.cp
                /\ rec["account1"] = lo
                /\ rec["account2"] = MaxId(last'.sender, last'.cp)
                /\ rec["balance"] = 0
                /\ rec["q_in"] = 1000000
                /\ rec["q_out"] = 1000000
                /\ Btoi(rec["asset_id"]) = last'.args[1]
                /\ rec["limit1"] = last'.args[2]
                /\ rec["limit2"] = last'.args[3]
                /\ rec["ripple"] = last'.args[4]
                /\ next_tl_id' = next_tl_id + 1 ]_vars

(* The second create was approved; it stored the line (1, 3) with the      *)
(* rippling flag set.                                                      *)
C21_Witness ==
    /\ Operation = "create" /\ last.ok
    /\ HasLine(1, 3)
    /\ local[1]["ripple"] = 1
    /\ local[1]["balance"] = 0
    /\ next_tl_id = 2

(* C22: a balance or credit call, approved or rejected, changes no local   *)
(* state, nor the creation counter, nor the administrator.                 *)
C22_ReadOnly ==
    [][ Operation' \in {"balance", "credit"} =>
            /\ local' = local
            /\ optedIn' = optedIn
            /\ next_tl_id' = next_tl_id
            /\ admin' = admin ]_vars

(* A credit call was rejected on a line whose balance exceeds its limit.   *)
C22_Witness ==
    /\ Operation = "credit" /\ ~last.ok
    /\ HasLine(1, 2)
    /\ local[1]["balance"] > local[1]["limit1"]

(* The accounts that hold a trust-line record.                             *)
Holders == {a \in Accounts : "account1" \in DOMAIN local[a]}

(* C23: the limits of a stored record are both positive or, after a        *)
(* freeze, both 0.                                                         *)
C23_LimitsShape ==
    \A a \in Holders :
        \/ (local[a]["limit1"] > 0 /\ local[a]["limit2"] > 0)
        \/ (local[a]["limit1"] = 0 /\ local[a]["limit2"] = 0)

(* C23, continued: a stored record gets a zero limit by an approved freeze *)
(* of its pair and by no other step: a record with a zero limit either     *)
(* had the same limits before the step or the step is a freeze of the      *)
(* pair the record names.                                                  *)
C23_ZeroLimitOnlyByFreeze ==
    /\ []C23_LimitsShape
    /\ [][ \A a \in Accounts :
              (/\ "account1" \in DOMAIN local'[a]
               /\ (local'[a]["limit1"] = 0 \/ local'[a]["limit2"] = 0)) =>
                  \/ /\ last'.op = "freeze" /\ last'.ok
                     /\ MinId(last'.sender, last'.cp) = a
                     /\ MaxId(last'.sender, last'.cp) = local'[a]["account2"]
                  \/ /\ a \in Holders
                     /\ local[a]["limit1"] = local'[a]["limit1"]
                     /\ local[a]["limit2"] = local'[a]["limit2"] ]_vars

(* C24: both qualities of every stored record lie in 1..1,000,000.         *)
C24_QualityRange ==
    \A a \in Holders :
        /\ 0 < local[a]["q_in"] /\ local[a]["q_in"] <= 1000000
        /\ 0 < local[a]["q_out"] /\ local[a]["q_out"] <= 1000000

(* C24, continued: a quality call is approved only with both values in     *)
(* 1..1,000,000, and a rejected one changes no local state.                *)
C24_QualityChecked ==
    /\ []C24_QualityRange
    /\ [][ last'.op = "quality" =>
              /\ last'.ok =>
                    /\ 0 < last'.args[1] /\ last'.args[1] <= 1000000
                    /\ 0 < last'.args[2] /\ last'.args[2] <= 1000000
              /\ (~last'.ok) => local' = local ]_vars

(* A quality call was rejected on a line whose qualities an earlier call   *)
(* had lowered.                                                            *)
C24_Witness ==
    /\ Operation = "quality" /\ ~last.ok
    /\ HasLine(1, 2)
    /\ local[1]["q_in"] = 500000
    /\ local[1]["q_out"] = 500000

(* C25: an approved quality call writes q_in and q_out, an approved        *)
(* ripple_set call writes the rippling flag; each leaves every other field *)
(* of the record and the creation counter as they were.                    *)
C25_FieldUpdatesOnly ==
    [][ (last'.ok /\ Operation' \in {"quality", "ripple_set"}) =>
            LET lo   == MinId(last'.sender, last'.cp)
                keys == IF Operation' = "quality" THEN {"q_in", "q_out"} ELSE {"ripple"}
            IN  /\ DOMAIN local'[lo] = (DOMAIN local[lo]) \cup keys
                /\ \A k \in (DOMAIN local[lo]) \ keys : local'[lo][k] = local[lo][k]
                /\ Operation' = "quality" =>
                      /\ local'[lo]["q_in"] = last'.args[1]
                      /\ local'[lo]["q_out"] = last'.args[2]
                /\ Operation' = "ripple_set" => local'[lo]["ripple"] = last'.args[1]
                /\ \A a \in Accounts \ {lo} : local'[a] = local[a]
                /\ next_tl_id' = next_tl_id ]_vars

(* A ripple_set call switched the flag of the line (1, 2) off while the    *)
(* line carries a balance and positive limits.                             *)
C25_Witness ==
    /\ Operation = "ripple_set" /\ last.ok /\ last.args[1] = 0
    /\ HasLine(1, 2)
    /\ local[1]["balance"] # 0
    /\ local[1]["limit1"] > 0
    /\ local[1]["ripple"] = 0

(* C27: the creation counter is 0 at the start.                            *)
C27_CounterCounts == last.op = "init" => next_tl_id = 0

(* C27, continued: a step that runs create and is approved raises the      *)
(* counter by exactly 1, and every other step (any other call, a rejected  *)
(* create) leaves it alone, so that the counter is the number of approved  *)
(* creates in every reachable state.                                       *)
C27_CounterByCreate ==
    /\ []C27_CounterCounts
    /\ [][ IF last'.op = "create" /\ last'.ok
              THEN next_tl_id' = next_tl_id + 1
              ELSE next_tl_id' = next_tl_id ]_vars

(* C28: the administrator is the identity that deployed the application,   *)
(* in every reachable state.                                               *)
C28_AdminFixed == admin = Creator

(* C29: a stored record of a pair is stored in every later state: no step  *)
(* removes the record of a pair or replaces it by another pair's.          *)
C29_NeverDeleted ==
    [][ \A lo, hi \in Accounts : HasLine(lo, hi) => HasLine(lo, hi)' ]_vars

(* C30: a send is approved only between the two parties of a stored        *)
(* record, and a send, approved or not, stores no record for a pair that   *)
(* had none.                                                               *)
C30_SendNeedsLine ==
    [][ Operation' = "send" =>
            /\ last'.ok =>
                  HasLine(MinId(last'.sender, last'.cp), MaxId(last'.sender, last'.cp))
            /\ \A lo, hi \in Accounts : (~HasLine(lo, hi)) => ~HasLine(lo, hi)' ]_vars

(* C31: fields are stored for a pair only by a create: the local state of  *)
(* an account holds a whole record or nothing (no partial record).         *)
C31_NoPartialRecord ==
    \A a \in Accounts : local[a] = NoKeys \/ a \in Holders

(* C31, continued: and a quality, ripple_set, limits, freeze or settle call *)
(* is approved only on a pair whose record is stored.                      *)
C31_OnlyCreateStores ==
    /\ []C31_NoPartialRecord
    /\ [][ (last'.ok /\ Operation' \in {"quality", "ripple_set", "limits", "freeze", "settle"}) =>
              HasLine(MinId(last'.sender, last'.cp), MaxId(last'.sender, last'.cp)) ]_vars

----------------------------------------------------------------------------
(***************************************************************************)
(* The other applications.  Each keeps its records in the local state of   *)
(* the calling account under byte-string keys; a key is modelled as the    *)
(* pair <<name, suffix>> (suffix 0 for a key without one).  These programs *)
(* use uint64 expressions only: a subtraction below 0 fails the call.      *)
(***************************************************************************)

(* App.localGet on a key/value map: a key never put reads as 0.            *)
Get(f, k) == IF k \in DOMAIN f THEN f[k] ELSE 0

(* The key <<name, 0>> of a field without suffix.                          *)
K(name) == <<name, 0>>

(* What is recorded of a transaction of these applications.                *)
ExtCall(oc, op, ok, s, arg) ==
    IF ok THEN [op |-> op, oc |-> oc, ok |-> TRUE, sender |-> s, arg |-> arg]
          ELSE [op |-> op, oc |-> "NoOp", ok |-> FALSE, sender |-> 0, arg |-> 0]

ExtNoCall == [op |-> "init", oc |-> "NoOp", ok |-> TRUE, sender |-> 0, arg |-> 0]

(* The state of an application is a record: program (the approval program  *)
(* installed: the one of the source, "replaced", or "deleted"), its        *)
(* globals, opted and loc (the accounts that opted in and their local      *)
(* state), and what the ledger and the properties keep beside it.          *)
LedgerFields == {"round", "last", "voted", "settled", "opted", "loc"}

(* The application is removed: its program and its globals are gone (a     *)
(* global then reads as 0); the accounts that opted in keep their local    *)
(* state.                                                                  *)
Removed(rec) ==
    [f \in DOMAIN rec |->
        IF f = "program" THEN "deleted"
        ELSE IF f \in LedgerFields THEN rec[f]
        ELSE 0]

(* The end of a handler call that leaves the state rec.  Each Cond tests   *)
(* the on-completion for OptIn and CloseOut only, ahead of the handlers:   *)
(* a handler runs under NoOp, UpdateApplication and DeleteApplication      *)
(* alike.  Once it approves, the ledger replaces the program               *)
(* (UpdateApplication) or removes the application (DeleteApplication).     *)
Completed(oc, ok, rec) ==
    IF (~ok) \/ oc = "NoOp" THEN rec
    ELSE IF oc = "UpdateApplication" THEN [rec EXCEPT !.program = "replaced"]
    ELSE Removed(rec)

(* The on-completions of a handler call: a call the handler rejects leaves *)
(* the same state under each of them and is taken once, as a NoOp call.    *)
OnCompletions(ok) == IF ok THEN Completions ELSE {"NoOp"}

----------------------------------------------------------------------------
(* SignerList (src/algorand/contracts/signer_list.py)                      *)

MaxWeight      == 1    \* largest weight a caller passes to add_signer
MaxQuorum      == 2    \* largest quorum a caller passes
MaxTotalWeight == 2    \* total_weight explored (add_signer is unbounded)
MaxProposals   == 1    \* proposals explored (total_proposals is unbounded)
MaxRound       == 1    \* rounds explored
MaxLists       == 2    \* create_list calls explored (total_lists is unbounded)

SLAccounts == {1, 2}

(* The accounts whose opt-in is explored.                                  *)
SLHolders == {1}

(* Signer arguments: the identities, and 0 for one that is not 32 bytes.   *)
SLSignerArgs == SLAccounts \cup {0}

SLOthers == <<trustVars, escrow, deletion, deposit, did, channel, dex, preauth>>

(* The local state of account a, and the update of one account's.          *)
SLLoc(a) == signer.loc[a]

SLWith(a, f) == [signer.loc EXCEPT ![a] = f]

(* on_creation (line 19)                                                   *)
InitSigner ==
    /\ signer = [ program |-> "approval", total_lists |-> 0, total_proposals |-> 0,
                  round |-> 0,
                  opted |-> {}, loc |-> [a \in SLAccounts |-> NoKeys],
                  voted |-> {} ]
    /\ admin = NotDeployed /\ next_tl_id = NotDeployed /\ optedIn = NotDeployed
    /\ local = NotDeployed /\ last = NotDeployed /\ frozen = NotDeployed
    /\ tracking = NotDeployed /\ program = NotDeployed
    /\ escrow = NotDeployed /\ deletion = NotDeployed /\ deposit = NotDeployed
    /\ did = NotDeployed /\ channel = NotDeployed /\ dex = NotDeployed
    /\ preauth = NotDeployed

(* The ledger's round advances.                                            *)
SLTick ==
    /\ signer.program = "approval"
    /\ signer.round < MaxRound
    /\ signer' = [signer EXCEPT !.round = @ + 1]
    /\ UNCHANGED SLOthers

(* Line 80: OptIn and CloseOut are approved; the ledger allocates resp.    *)
(* drops the sender's local state.  Line 83: clear_state_program.          *)
SLOptIn(s) ==
    LET ok == s \notin signer.opted
    IN  /\ signer.program = "approval"
        /\ s \in SLHolders
        /\ signer' = [signer EXCEPT !.opted = IF ok THEN @ \cup {s} ELSE @]
        /\ UNCHANGED SLOthers

(* CloseOut, and ClearState: the ledger carries out a ClearState whatever  *)
(* program is installed, and after the application was deleted as well.    *)
SLCloseOut(s) ==
    LET ok == s \in signer.opted
    IN  /\ signer' = [signer EXCEPT !.opted = IF ok THEN @ \ {s} ELSE @,
                                    !.loc = IF ok THEN SLWith(s, NoKeys) ELSE @]
        /\ UNCHANGED SLOthers

(* Lines 21-25: create_list                                                *)
sl_create_ok(s, quorum) == quorum > 0 /\ s \in signer.opted

sl_create_local(s, quorum) ==
    LET f1 == Put(SLLoc(s), K("owner"), s)
        f2 == Put(f1, K("quorum"), quorum)
        f3 == Put(f2, K("total_weight"), 0)
        f4 == Put(f3, K("num_signers"), 0)
        f5 == Put(f4, K("created"), signer.round)
        f6 == Put(f5, K("status"), 0)
    IN  f6

SLCreateList(s, quorum) ==
    LET ok == sl_create_ok(s, quorum)
    IN  /\ signer.program = "approval"
        /\ signer.total_lists < MaxLists
        /\ \E oc \in OnCompletions(ok) :
               signer' = Completed(oc, ok, [signer EXCEPT
                        !.loc = IF ok THEN SLWith(s, sl_create_local(s, quorum)) ELSE @,
                        !.total_lists = IF ok THEN @ + 1 ELSE @])
        /\ UNCHANGED SLOthers

(* Lines 26-35: add_signer                                                 *)
sl_add_ok(s, addr, weight) ==
    /\ s \in signer.opted
    /\ s = Get(SLLoc(s), K("owner"))
    /\ Get(SLLoc(s), K("status")) = 0
    /\ addr \in SLAccounts
    /\ weight > 0

sl_add_local(s, addr, weight) ==
    LET f1 == Put(SLLoc(s), <<"signer", addr>>, weight)
        f2 == Put(f1, <<"active", addr>>, 1)
        f3 == Put(f2, <<"added", addr>>, signer.round)
        f4 == Put(f3, K("total_weight"), Get(SLLoc(s), K("total_weight")) + weight)
        f5 == Put(f4, K("num_signers"), Get(SLLoc(s), K("num_signers")) + 1)
    IN  f5

SLAddSigner(s, addr, weight) ==
    LET ok == sl_add_ok(s, addr, weight)
    IN  /\ signer.program = "approval"
        /\ Get(SLLoc(s), K("total_weight")) + weight <= MaxTotalWeight
        /\ \E oc \in OnCompletions(ok) :
               signer' = Completed(oc, ok, [signer EXCEPT
                        !.loc = IF ok THEN SLWith(s, sl_add_local(s, addr, weight)) ELSE @])
        /\ UNCHANGED SLOthers

(* Lines 36-46: remove_signer                                              *)
sl_remove_ok(s, addr) ==
    /\ s \in signer.opted
    /\ s = Get(SLLoc(s), K("owner"))
    /\ Get(SLLoc(s), K("status")) = 0
    /\ Get(SLLoc(s), <<"active", addr>>) = 1
    /\ Get(SLLoc(s), K("total_weight")) >= Get(SLLoc(s), <<"signer", addr>>)
    /\ Get(SLLoc(s), K("num_signers")) >= 1

sl_remove_local(s, addr) ==
    LET f1 == Put(SLLoc(s), <<"active", addr>>, 0)
        f2 == Put(f1, K("total_weight"),
                  Get(SLLoc(s), K("total_weight")) - Get(SLLoc(s), <<"signer", addr>>))
        f3 == Put(f2, K("num_signers"), Get(SLLoc(s), K("num_signers")) - 1)
    IN  f3

SLRemoveSigner(s, addr) ==
    LET ok == sl_remove_ok(s, addr)
    IN  /\ signer.program = "approval"
        /\ \E oc \in OnCompletions(ok) :
               signer' = Completed(oc, ok, [signer EXCEPT
                        !.loc = IF ok THEN SLWith(s, sl_remove_local(s, addr)) ELSE @])
        /\ UNCHANGED SLOthers

(* Lines 47-54: update_quorum                                              *)
sl_quorum_ok(s, q) ==
    /\ s \in signer.opted
    /\ s = Get(SLLoc(s), K("owner"))
    /\ Get(SLLoc(s), K("status")) = 0
    /\ q > 0
    /\ q <= Get(SLLoc(s), K("total_weight"))

SLUpdateQuorum(s, q) ==
    LET ok == sl_quorum_ok(s, q)
    IN  /\ signer.program = "approval"
        /\ \E oc \in OnCompletions(ok) :
               signer' = Completed(oc, ok, [signer EXCEPT
                        !.loc = IF ok THEN SLWith(s, Put(SLLoc(s), K("quorum"), q)) ELSE @])
        /\ UNCHANGED SLOthers

(* Lines 55-62: create_proposal.  The proposal data is the byte string 0.  *)
sl_propose_ok(s, expires_at) ==
    /\ s \in signer.opted
    /\ Get(SLLoc(s), K("status")) = 0
    /\ expires_at > signer.round

sl_propose_local(s, expires_at) ==
    LET id == signer.total_proposals + 1
        f1 == Put(SLLoc(s), <<"prop_id", id>>, id)
        f2 == Put(f1, <<"prop_creator", id>>, s)
        f3 == Put(f2, <<"prop_data", id>>, 0)
        f4 == Put(f3, <<"prop_approvals", id>>, 0)
        f5 == Put(f4, <<"prop_status", id>>, 0)
        f6 == Put(f5, <<"prop_created", id>>, signer.round)
        f7 == Put(f6, <<"prop_expires", id>>, expires_at)
    IN  f7

SLCreateProposal(s, expires_at) ==
    LET ok == sl_propose_ok(s, expires_at)
    IN  /\ signer.program = "approval"
        /\ signer.total_proposals < MaxProposals
        /\ \E oc \in OnCompletions(ok) :
               signer' = Completed(oc, ok, [signer EXCEPT
                        !.loc = IF ok THEN SLWith(s, sl_propose_local(s, expires_at)) ELSE @,
                        !.total_proposals = IF ok THEN @ + 1 ELSE @])
        /\ UNCHANGED SLOthers

(* Lines 63-74: approve_proposal.  new_approvals (line 68) is the          *)
(* expression prop_approvals + weight: line 71 evaluates it again after    *)
(* the put of line 70, on the approvals just stored.                       *)
sl_new_approvals(s, id) ==
    Get(SLLoc(s), <<"prop_approvals", id>>) + Get(SLLoc(s), <<"signer", s>>)

sl_approve_ok(s, id) ==
    /\ s \in signer.opted
    /\ Get(SLLoc(s), <<"active", s>>) = 1
    /\ Get(SLLoc(s), <<"prop_status", id>>) = 0
    /\ signer.round < Get(SLLoc(s), <<"prop_expires", id>>)

sl_approve_local(s, id) ==
    LET f1 == Put(SLLoc(s), <<"prop_approvals", id>>, sl_new_approvals(s, id))
    IN  IF Get(f1, <<"prop_approvals", id>>) + Get(f1, <<"signer", s>>)
                >= Get(f1, K("quorum"))
            THEN Put(f1, <<"prop_status", id>>, 1)
            ELSE f1

(* voted: the history of approved approve calls, <<holder of the local     *)
(* state, proposal, signer>>.                                              *)
SLApproveProposal(s, id) ==
    LET ok == sl_approve_ok(s, id)
    IN  /\ signer.program = "approval"
        /\ \E oc \in OnCompletions(ok) :
               signer' = Completed(oc, ok, [signer EXCEPT
                        !.loc = IF ok THEN SLWith(s, sl_approve_local(s, id)) ELSE @,
                        !.voted = IF ok THEN @ \cup {<<s, id, s>>} ELSE @])
        /\ UNCHANGED SLOthers

(* Lines 75-79: execute_proposal                                           *)
sl_execute_ok(s, id) ==
    /\ s \in signer.opted
    /\ Get(SLLoc(s), <<"prop_status", id>>) = 1

SLExecuteProposal(s, id) ==
    LET ok == sl_execute_ok(s, id)
    IN  /\ signer.program = "approval"
        /\ \E oc \in OnCompletions(ok) :
               signer' = Completed(oc, ok, [signer EXCEPT
                        !.loc = IF ok THEN SLWith(s, Put(SLLoc(s), <<"prop_status", id>>, 2))
                                      ELSE @])
        /\ UNCHANGED SLOthers

(* Line 80: the dispatch of approval_program                               *)
NextSigner ==
    \/ SLTick
    \/ \E s \in SLAccounts : SLOptIn(s)
    \/ \E s \in SLAccounts : SLCloseOut(s)
    \/ \E s \in SLAccounts, q \in 0..MaxQuorum : SLCreateList(s, q)
    \/ \E s \in SLAccounts, a \in SLSignerArgs, w \in 0..MaxWeight : SLAddSigner(s, a, w)
    \/ \E s \in SLAccounts, a \in SLAccounts : SLRemoveSigner(s, a)
    \/ \E s \in SLAccounts, q \in 0..MaxQuorum : SLUpdateQuorum(s, q)
    \/ \E s \in SLAccounts, e \in 1..(MaxRound + 1) : SLCreateProposal(s, e)
    \/ \E s \in SLAccounts, id \in 1..MaxProposals : SLApproveProposal(s, id)
    \/ \E s \in SLAccounts, id \in 1..MaxProposals : SLExecuteProposal(s, id)

SpecSigner == InitSigner /\ [][NextSigner]_vars

(* The summed weight, in the list of holder h, of the distinct active      *)
(* signers whose approval of proposal id was approved.                     *)
RECURSIVE SLSum(_, _)
SLSum(f, S) ==
    IF S = {} THEN 0
    ELSE LET a == CHOOSE x \in S : TRUE
         IN  (IF Get(f, <<"active", a>>) = 1 THEN Get(f, <<"signer", a>>) ELSE 0)
                 + SLSum(f, S \ {a})

SLApprovers(v, h, id) == {a \in SLAccounts : <<h, id, a>> \in v}

(* C32: a proposal becomes approved (status 1) only in a step after which  *)
(* the distinct active signers that approved it weigh at least the quorum  *)
(* of its list (steps of plain calls, which leave the program in place).   *)
C32_QuorumOfDistinctSigners ==
    [][ \A h \in SLAccounts, id \in 1..MaxProposals :
            (/\ signer'.program = "approval"
             /\ Get(signer.loc[h], <<"prop_status", id>>) = 0
             /\ Get(signer'.loc[h], <<"prop_status", id>>) = 1) =>
                SLSum(signer'.loc[h], SLApprovers(signer'.voted, h, id))
                    >= Get(signer'.loc[h], K("quorum")) ]_vars

----------------------------------------------------------------------------
(* Escrow (src/algorand/contracts/escrow.py)                               *)

MaxEscrows == 2    \* create calls explored (next_esc_id is unbounded)

ESAccounts == {1, 2}

(* Condition types: 0 none, 1 hash lock, 2 time lock, 3 both; 4 is not one. *)
ESCondTypes == 0..4

(* Preimages: 1 and 2 are 32 bytes long, 0 is shorter.                     *)
ESPreimages == {0, 1, 2}

ESLen32(p) == p \in {1, 2}

(* Sha256 on the preimages explored: injective, and not the identity.      *)
Sha256(p) == 10 + p

ESHashLocks == {Sha256(1)}

ESTimeLocks == {1}

ESOthers == <<trustVars, signer, deletion, deposit, did, channel, dex, preauth>>

ESLoc(a) == escrow.loc[a]

ESWith(a, f) == [escrow.loc EXCEPT ![a] = f]

(* The trust-line application is not part of this deployment.             *)
TrustNotDeployed ==
    /\ admin = NotDeployed /\ next_tl_id = NotDeployed /\ optedIn = NotDeployed
    /\ local = NotDeployed /\ last = NotDeployed /\ frozen = NotDeployed
    /\ tracking = NotDeployed /\ program = NotDeployed

(* on_creation (line 25).  settled: for each account, the number of        *)
(* approved execute, cancel and clawback calls since its last create.      *)
InitEscrow ==
    /\ escrow = [ program |-> "approval", next_esc_id |-> 1, round |-> 0, opted |-> {},
                  loc |-> [a \in ESAccounts |-> NoKeys],
                  settled |-> [a \in ESAccounts |-> 0] ]
    /\ TrustNotDeployed
    /\ signer = NotDeployed /\ deletion = NotDeployed /\ deposit = NotDeployed
    /\ did = NotDeployed /\ channel = NotDeployed /\ dex = NotDeployed
    /\ preauth = NotDeployed

ESTick ==
    /\ escrow.program = "approval"
    /\ escrow.round < MaxRound
    /\ escrow' = [escrow EXCEPT !.round = @ + 1]
    /\ UNCHANGED ESOthers

(* Lines 86-87: OptIn and CloseOut are approved.  Line 97: clear_state.    *)
ESOptIn(s) ==
    /\ escrow.program = "approval"
    /\ escrow' = [escrow EXCEPT !.opted = @ \cup {s}]
    /\ UNCHANGED ESOthers

(* CloseOut, and ClearState: the ledger carries out a ClearState whatever  *)
(* program is installed, and after the application was deleted as well.    *)
ESCloseOut(s) ==
    LET ok == s \in escrow.opted
    IN  /\ escrow' = [escrow EXCEPT !.opted = IF ok THEN @ \ {s} ELSE @,
                                    !.loc = IF ok THEN ESWith(s, NoKeys) ELSE @]
        /\ UNCHANGED ESOthers

(* Lines 27-41: create_escrow                                              *)
es_create_ok(s, recipient, amount, condition_type, expires_at) ==
    /\ s \in escrow.opted
    /\ amount > 0
    /\ expires_at > escrow.round
    /\ s # recipient
    /\ condition_type \in {0, 1, 2, 3}

es_create_local(s, recipient, amount, condition_type, hash_lock, time_lock, expires_at, allow_clawback) ==
    LET f1  == Put(ESLoc(s), K("sender"), s)
        f2  == Put(f1, K("recipient"), recipient)
        f3  == Put(f2, K("token"), 0)
        f4  == Put(f3, K("amount"), amount)
        f5  == Put(f4, K("cond_type"), condition_type)
        f6  == Put(f5, K("hash_lock"), hash_lock)
        f7  == Put(f6, K("time_lock"), time_lock)
        f8  == Put(f7, K("expires"), expires_at)
        f9  == Put(f8, K("status"), 0)
        f10 == Put(f9, K("clawback"), allow_clawback)
        f11 == Put(f10, K("created"), escrow.round)
        f12 == Put(f11, K("finished"), 0)
    IN  f12

ESCreate(s, recipient, amount, condition_type, hash_lock, time_lock, expires_at, allow_clawback) ==
    LET ok == es_create_ok(s, recipient, amount, condition_type, expires_at)
    IN  /\ escrow.program = "approval"
        /\ escrow.next_esc_id <= MaxEscrows
        /\ \E oc \in OnCompletions(ok) :
               escrow' = Completed(oc, ok, [escrow EXCEPT
                        !.loc = IF ok THEN ESWith(s, es_create_local(s, recipient, amount,
                                                     condition_type, hash_lock, time_lock,
                                                     expires_at, allow_clawback))
                                      ELSE @,
                        !.next_esc_id = IF ok THEN @ + 1 ELSE @,
                        !.settled = IF ok THEN [@ EXCEPT ![s] = 0] ELSE @])
        /\ UNCHANGED ESOthers

(* The settled state of s: status and finished round, one more settlement. *)
ESSettle(s, status) ==
    [escrow EXCEPT
        !.loc = ESWith(s, Put(Put(ESLoc(s), K("status"), status),
                              K("finished"), escrow.round)),
        !.settled = [@ EXCEPT ![s] = @ + 1]]

(* Lines 43-57: execute_escrow.  Every field is read from the local state  *)
(* of the caller.                                                          *)
es_hash_ok(f, preimage) ==
    ESLen32(preimage) /\ Sha256(preimage) = Get(f, K("hash_lock"))

es_release_ok(f, preimage, round) ==
    /\ Get(f, K("cond_type")) = 1 => es_hash_ok(f, preimage)
    /\ Get(f, K("cond_type")) = 2 => round >= Get(f, K("time_lock"))
    /\ Get(f, K("cond_type")) = 3 =>
           es_hash_ok(f, preimage) /\ round >= Get(f, K("time_lock"))

es_execute_ok(caller, preimage) ==
    /\ caller \in escrow.opted
    /\ caller = Get(ESLoc(caller), K("recipient"))
    /\ Get(ESLoc(caller), K("status")) = 0
    /\ escrow.round < Get(ESLoc(caller), K("expires"))
    /\ es_release_ok(ESLoc(caller), preimage, escrow.round)

ESExecute(caller, preimage) ==
    /\ escrow.program = "approval"
    /\ \E oc \in OnCompletions(es_execute_ok(caller, preimage)) :
           escrow' = Completed(oc, es_execute_ok(caller, preimage),
                           IF es_execute_ok(caller, preimage) THEN ESSettle(caller, 1)
                                                              ELSE escrow)
    /\ UNCHANGED ESOthers

(* Lines 59-67: cancel_escrow                                              *)
es_cancel_ok_any_status(caller) ==
    /\ caller \in escrow.opted
    /\ caller = Get(ESLoc(caller), K("sender"))
    /\ escrow.round >= Get(ESLoc(caller), K("expires"))

es_cancel_ok(caller) ==
    /\ caller \in escrow.opted
    /\ caller = Get(ESLoc(caller), K("sender"))
    /\ Get(ESLoc(caller), K("status")) = 0
    /\ escrow.round >= Get(ESLoc(caller), K("expires"))

ESCancel(caller) ==
    /\ escrow.program = "approval"
    /\ \E oc \in OnCompletions(es_cancel_ok(caller)) :
           escrow' = Completed(oc, es_cancel_ok(caller),
                           IF es_cancel_ok(caller) THEN ESSettle(caller, 2) ELSE escrow)
    /\ UNCHANGED ESOthers

(* Lines 69-77: clawback_escrow                                            *)
es_clawback_ok(caller) ==
    /\ caller \in escrow.opted
    /\ caller = Get(ESLoc(caller), K("sender"))
    /\ Get(ESLoc(caller), K("status")) = 0
    /\ Get(ESLoc(caller), K("clawback")) = 1

ESClawback(caller) ==
    /\ escrow.program = "approval"
    /\ \E oc \in OnCompletions(es_clawback_ok(caller)) :
           escrow' = Completed(oc, es_clawback_ok(caller),
                           IF es_clawback_ok(caller) THEN ESSettle(caller, 3) ELSE escrow)
    /\ UNCHANGED ESOthers

(* Lines 79-82: get_escrow asserts nothing and returns 1                   *)
ESGet(caller) ==
    /\ escrow.program = "approval"
    /\ \E oc \in OnCompletions(TRUE) :
           escrow' = Completed(oc, TRUE, escrow)
    /\ UNCHANGED ESOthers

(* Lines 84-93: the dispatch of approval_program                           *)
NextEscrow ==
    \/ ESTick
    \/ \E s \in ESAccounts : ESOptIn(s)
    \/ \E s \in ESAccounts : ESCloseOut(s)
    \/ \E s \in ESAccounts, r \in ESAccounts, a \in 0..MaxAmount, c \in ESCondTypes,
          h \in ESHashLocks, t \in ESTimeLocks, e \in 1..(MaxRound + 1), b \in {0, 1} :
            ESCreate(s, r, a, c, h, t, e, b)
    \/ \E s \in ESAccounts, p \in ESPreimages : ESExecute(s, p)
    \/ \E s \in ESAccounts : ESCancel(s)
    \/ \E s \in ESAccounts : ESClawback(s)
    \/ \E s \in ESAccounts : ESGet(s)

SpecEscrow == InitEscrow /\ [][NextEscrow]_vars

(* C33: the recipient R of an active escrow created by S, R # S, can       *)
(* execute it before expires_at once the release condition is met.         *)
C33_RecipientCanExecute ==
    \A S \in ESAccounts, R \in ESAccounts, p \in ESPreimages :
        (/\ R # S
         /\ S \in escrow.opted /\ R \in escrow.opted
         /\ Get(ESLoc(S), K("sender")) = S
         /\ Get(ESLoc(S), K("recipient")) = R
         /\ Get(ESLoc(S), K("status")) = 0
         /\ escrow.round < Get(ESLoc(S), K("expires"))
         /\ es_release_ok(ESLoc(S), p, escrow.round))
            => es_execute_ok(R, p)

(* C37: between two successive creates by one sender at most one of        *)
(* execute, cancel and clawback is approved for that sender's escrow.      *)
C37_SettledOnce ==
    \A s \in ESAccounts : escrow.settled[s] <= 1

(* C37, witness: a cancelled escrow that allows clawback, held by its      *)
(* sender after the one settlement.                                        *)
C37_Witness ==
    \E s \in ESAccounts :
        /\ s \in escrow.opted
        /\ escrow.settled[s] = 1
        /\ Get(ESLoc(s), K("status")) = 2
        /\ Get(ESLoc(s), K("clawback")) = 1
        /\ Get(ESLoc(s), K("sender")) = s

----------------------------------------------------------------------------
(* AccountDelete (src/algorand/contracts/account_delete.py)                *)

MaxRequests  == 2    \* request calls explored (total_requests is unbounded)
MaxDeletions == 3    \* approved execute calls explored (total_deletions is unbounded)

ApprovalsNeeded == 2

ADAccounts == {1, 2}

(* Beneficiary arguments: an identity, and 0 for one that is not 32 bytes. *)
ADBeneficiaries == {0, 2}

ADOthers == <<trustVars, signer, escrow, deposit, did, channel, dex, preauth>>

ADLoc(a) == deletion.loc[a]

ADWith(a, f) == [deletion.loc EXCEPT ![a] = f]

(* A handler's outcome: the local state of s becomes f when the call is    *)
(* approved; a rejected call changes nothing.                              *)
ADStep(oc, op, ok, s, f) ==
    [deletion EXCEPT !.loc = IF ok THEN ADWith(s, f) ELSE @,
                     !.last = ExtCall(oc, op, ok, s, 0)]

(* on_creation (line 22)                                                   *)
InitDeletion ==
    /\ deletion = [ program |-> "approval", total_requests |-> 0, total_deletions |-> 0,
                    round |-> 0,
                    opted |-> {}, loc |-> [a \in ADAccounts |-> NoKeys],
                    last |-> ExtNoCall ]
    /\ TrustNotDeployed
    /\ signer = NotDeployed /\ escrow = NotDeployed /\ deposit = NotDeployed
    /\ did = NotDeployed /\ channel = NotDeployed /\ dex = NotDeployed
    /\ preauth = NotDeployed

ADTick ==
    /\ deletion.program = "approval"
    /\ deletion.round < MaxRound
    /\ deletion' = [deletion EXCEPT !.round = @ + 1,
                                    !.last = ExtCall("NoOp", "tick", TRUE, 0, 0)]
    /\ UNCHANGED ADOthers

(* Line 79: OptIn and CloseOut are approved.  Line 82: clear_state.        *)
ADOptIn(s) ==
    /\ deletion.program = "approval"
    /\ deletion' = [deletion EXCEPT !.opted = @ \cup {s},
                                    !.last = ExtCall("OptIn", "optin", s \notin deletion.opted, s, 0)]
    /\ UNCHANGED ADOthers

(* CloseOut, and ClearState: the ledger carries out a ClearState whatever  *)
(* program is installed, and after the application was deleted as well.    *)
ADCloseOut(s) ==
    LET ok == s \in deletion.opted
    IN  /\ deletion' = [deletion EXCEPT !.opted = IF ok THEN @ \ {s} ELSE @,
                                        !.loc = IF ok THEN ADWith(s, NoKeys) ELSE @,
                                        !.last = ExtCall(IF deletion.program = "approval" THEN "CloseOut" ELSE "ClearState",
                                                "closeout", ok, s, 0)]
        /\ UNCHANGED ADOthers

(* Lines 23-30: request_deletion                                           *)
ad_request_ok(s, beneficiary, scheduled_at, requires_approval) ==
    /\ s \in deletion.opted
    /\ beneficiary # 0
    /\ scheduled_at > deletion.round
    /\ requires_approval \in {0, 1}

ad_request_local(s, beneficiary, scheduled_at, requires_approval) ==
    LET f1 == Put(ADLoc(s), K("id"), deletion.total_requests + 1)
        f2 == Put(f1, K("account"), s)
        f3 == Put(f2, K("beneficiary"), beneficiary)
        f4 == Put(f3, K("requested"), deletion.round)
        f5 == Put(f4, K("scheduled"), scheduled_at)
        f6 == Put(f5, K("status"), 0)
        f7 == Put(f6, K("req_approval"), requires_approval)
        f8 == Put(f7, K("approvals"), 0)
        f9 == Put(f8, K("cleanup"), 0)
    IN  f9

ADRequest(s, beneficiary, scheduled_at, requires_approval) ==
    LET ok == ad_request_ok(s, beneficiary, scheduled_at, requires_approval)
    IN  /\ deletion.program = "approval"
        /\ deletion.total_requests < MaxRequests
        /\ \E oc \in OnCompletions(ok) :
               deletion' = Completed(oc, ok, [ADStep(oc, "request", ok, s,
                               ad_request_local(s, beneficiary, scheduled_at, requires_approval))
                          EXCEPT !.total_requests = IF ok THEN @ + 1 ELSE @])
        /\ UNCHANGED ADOthers

(* Lines 31-38: approve_deletion.  approvals (line 33) is the expression   *)
(* that reads the key: line 37 evaluates approvals + 1 after the put of    *)
(* line 36, on the count just stored.                                      *)
ad_approve_ok(caller) ==
    /\ caller \in deletion.opted
    /\ Get(ADLoc(caller), K("req_approval")) = 1
    /\ Get(ADLoc(caller), K("status")) = 0

ad_approve_local(caller) ==
    LET f1 == Put(ADLoc(caller), K("approvals"), Get(ADLoc(caller), K("approvals")) + 1)
    IN  IF Get(f1, K("approvals")) + 1 >= ApprovalsNeeded
            THEN Put(f1, K("status"), 1)
            ELSE f1

ADApprove(caller) ==
    /\ deletion.program = "approval"
    /\ \E oc \in OnCompletions(ad_approve_ok(caller)) :
           deletion' = Completed(oc, ad_approve_ok(caller),
                             ADStep(oc, "approve", ad_approve_ok(caller), caller,
                                    ad_approve_local(caller)))
    /\ UNCHANGED ADOthers

(* The asserts shared by mark_assets_cleaned, cancel_deletion,             *)
(* update_beneficiary and extend_schedule: the caller holds its own        *)
(* request, pending (0) or approved (1).                                   *)
ad_open(caller) ==
    /\ caller \in deletion.opted
    /\ caller = Get(ADLoc(caller), K("account"))
    /\ Get(ADLoc(caller), K("status")) \in {0, 1}

(* Lines 39-45: mark_assets_cleaned                                        *)
ADMarkCleanup(caller) ==
    /\ deletion.program = "approval"
    /\ \E oc \in OnCompletions(ad_open(caller)) :
           deletion' = Completed(oc, ad_open(caller),
                             ADStep(oc, "mark_cleanup", ad_open(caller), caller,
                                    Put(ADLoc(caller), K("cleanup"), 1)))
    /\ UNCHANGED ADOthers

(* Lines 46-54: execute_deletion                                           *)
ad_execute_ok(caller) ==
    /\ caller \in deletion.opted
    /\ deletion.round >= Get(ADLoc(caller), K("scheduled"))
    /\ Get(ADLoc(caller), K("cleanup")) = 1
    /\ Get(ADLoc(caller), K("req_approval")) = 1 => Get(ADLoc(caller), K("status")) = 1

ADExecute(caller) ==
    LET ok == ad_execute_ok(caller)
    IN  /\ deletion.program = "approval"
        /\ deletion.total_deletions < MaxDeletions
        /\ \E oc \in OnCompletions(ok) :
               deletion' = Completed(oc, ok,
                          [ADStep(oc, "execute", ok, caller, Put(ADLoc(caller), K("status"), 2))
                              EXCEPT !.total_deletions = IF ok THEN @ + 1 ELSE @])
        /\ UNCHANGED ADOthers

(* Lines 55-61: cancel_deletion                                            *)
ADCancel(caller) ==
    /\ deletion.program = "approval"
    /\ \E oc \in OnCompletions(ad_open(caller)) :
           deletion' = Completed(oc, ad_open(caller),
                             ADStep(oc, "cancel", ad_open(caller), caller,
                                    Put(ADLoc(caller), K("status"), 3)))
    /\ UNCHANGED ADOthers

(* Lines 62-69: update_beneficiary                                         *)
ADUpdateBeneficiary(caller, new_beneficiary) ==
    LET ok == ad_open(caller) /\ new_beneficiary # 0
    IN  /\ deletion.program = "approval"
        /\ \E oc \in OnCompletions(ok) :
               deletion' = Completed(oc, ok,
                             ADStep(oc, "update_beneficiary", ok, caller,
                                    Put(ADLoc(caller), K("beneficiary"), new_beneficiary)))
        /\ UNCHANGED ADOthers

(* Lines 70-78: extend_schedule                                            *)
ADExtend(caller, new_scheduled_at) ==
    LET ok == ad_open(caller) /\ new_scheduled_at > Get(ADLoc(caller), K("scheduled"))
    IN  /\ deletion.program = "approval"
        /\ \E oc \in OnCompletions(ok) :
               deletion' = Completed(oc, ok,
                             ADStep(oc, "extend", ok, caller,
                                    Put(ADLoc(caller), K("scheduled"), new_scheduled_at)))
        /\ UNCHANGED ADOthers

(* Line 79: the dispatch of approval_program                               *)
NextDeletion ==
    \/ ADTick
    \/ \E s \in ADAccounts : ADOptIn(s)
    \/ \E s \in ADAccounts : ADCloseOut(s)
    \/ \E s \in ADAccounts, b \in ADBeneficiaries, t \in 0..MaxRound, r \in 0..2 :
          ADRequest(s, b, t, r)
    \/ \E s \in ADAccounts : ADApprove(s)
    \/ \E s \in ADAccounts : ADMarkCleanup(s)
    \/ \E s \in ADAccounts : ADExecute(s)
    \/ \E s \in ADAccounts : ADCancel(s)
    \/ \E s \in ADAccounts, b \in ADBeneficiaries : ADUpdateBeneficiary(s, b)
    \/ \E s \in ADAccounts, t \in 1..(MaxRound + 1) : ADExtend(s, t)

SpecDeletion == InitDeletion /\ [][NextDeletion]_vars

(* C34: no execute call is approved for a request that is cancelled (3) or *)
(* executed (2), so a request is executed at most once, and                *)
(* total_deletions never exceeds total_requests.                           *)
C34_ExecuteAtMostOnce ==
    /\ [](deletion.total_deletions <= deletion.total_requests)
    /\ [][ \A h \in ADAccounts :
              Get(deletion.loc[h], K("status")) \in {2, 3} =>
                  ~(deletion'.last.op = "execute" /\ deletion'.last.oc = "NoOp"
                        /\ deletion'.last.ok /\ deletion'.last.sender = h) ]_vars

----------------------------------------------------------------------------
(* DepositAuthorization (src/algorand/contracts/deposit_authorization.py)  *)

MaxAuths    == 2    \* approved create calls explored (total is unbounded)
MaxTotalLim == 1    \* largest total limit a caller passes

MaxTier == 3

DAAccounts == {1, 2}

DACreator == 1

(* Address arguments: an identity, and 0 for one that is not 32 bytes.     *)
DAAddrs == {0, 2}

(* Officer arguments of update_comp: the creator, and 0 for one that is    *)
(* not 32 bytes; the records explored are those of the creator.            *)
DAOfficers == {0, DACreator}

DAOthers == <<trustVars, signer, escrow, deletion, did, channel, dex, preauth>>

DALoc(a) == deposit.loc[a]

DAWith(a, f) == [deposit.loc EXCEPT ![a] = f]

(* on_creation (line 27)                                                   *)
InitDeposit ==
    /\ deposit = [ program |-> "approval", admin |-> DACreator, compliance |-> DACreator,
                   total |-> 0,
                   active |-> 0, round |-> 0, opted |-> {},
                   loc |-> [a \in DAAccounts |-> NoKeys] ]
    /\ TrustNotDeployed
    /\ signer = NotDeployed /\ escrow = NotDeployed /\ deletion = NotDeployed
    /\ did = NotDeployed /\ channel = NotDeployed /\ dex = NotDeployed
    /\ preauth = NotDeployed

DATick ==
    /\ deposit.program = "approval"
    /\ deposit.round < MaxRound
    /\ deposit' = [deposit EXCEPT !.round = @ + 1]
    /\ UNCHANGED DAOthers

(* Line 104: OptIn and CloseOut are approved.  Line 107: clear_state.      *)
DAOptIn(s) ==
    /\ deposit.program = "approval"
    /\ deposit' = [deposit EXCEPT !.opted = @ \cup {s}]
    /\ UNCHANGED DAOthers

(* CloseOut, and ClearState: the ledger carries out a ClearState whatever  *)
(* program is installed, and after the application was deleted as well.    *)
DACloseOut(s) ==
    LET ok == s \in deposit.opted
    IN  /\ deposit' = [deposit EXCEPT !.opted = IF ok THEN @ \ {s} ELSE @,
                                      !.loc = IF ok THEN DAWith(s, NoKeys) ELSE @]
        /\ UNCHANGED DAOthers

(* Lines 28-41: create_auth                                                *)
da_create_ok(auth, addr, min_amt, max_amt, total_lim, tier, expires) ==
    /\ auth \in deposit.opted
    /\ auth = deposit.compliance \/ auth = deposit.admin
    /\ addr # 0
    /\ max_amt > 0
    /\ total_lim >= max_amt
    /\ min_amt <= max_amt
    /\ tier <= MaxTier
    /\ expires > deposit.round

da_create_local(auth, addr, min_amt, max_amt, total_lim, tier, expires, twofa) ==
    LET f1  == Put(DALoc(auth), K("authorizer"), auth)
        f2  == Put(f1, K("authorized"), addr)
        f3  == Put(f2, K("asset"), 0)
        f4  == Put(f3, K("min"), min_amt)
        f5  == Put(f4, K("max"), max_amt)
        f6  == Put(f5, K("total_lim"), total_lim)
        f7  == Put(f6, K("used"), 0)
        f8  == Put(f7, K("tier"), tier)
        f9  == Put(f8, K("created"), deposit.round)
        f10 == Put(f9, K("expires"), expires)
        f11 == Put(f10, K("status"), 0)
        f12 == Put(f11, K("cred"), 0)
        f13 == Put(f12, K("2fa"), twofa)
    IN  f13

DACreate(auth, addr, min_amt, max_amt, total_lim, tier, expires, twofa) ==
    LET ok == da_create_ok(auth, addr, min_amt, max_amt, total_lim, tier, expires)
    IN  /\ deposit.program = "approval"
        /\ deposit.total < MaxAuths
        /\ \E oc \in OnCompletions(ok) :
               deposit' = Completed(oc, ok, [deposit EXCEPT
                         !.loc = IF ok THEN DAWith(auth, da_create_local(auth, addr, min_amt,
                                                     max_amt, total_lim, tier, expires, twofa))
                                       ELSE @,
                         !.total = IF ok THEN @ + 1 ELSE @,
                         !.active = IF ok THEN @ + 1 ELSE @])
        /\ UNCHANGED DAOthers

(* Lines 42-55: auth_deposit.  code: 0 is the empty byte string.           *)
da_deposit_ok(caller, amt, code) ==
    /\ caller \in deposit.opted
    /\ Get(DALoc(caller), K("status")) = 0
    /\ deposit.round < Get(DALoc(caller), K("expires"))
    /\ amt >= Get(DALoc(caller), K("min"))
    /\ amt <= Get(DALoc(caller), K("max"))
    /\ Get(DALoc(caller), K("used")) + amt <= Get(DALoc(caller), K("total_lim"))
    /\ Get(DALoc(caller), K("2fa")) = 1 => code # 0

DADeposit(caller, amt, code) ==
    /\ deposit.program = "approval"
    /\ \E oc \in OnCompletions(da_deposit_ok(caller, amt, code)) :
           deposit' = Completed(oc, da_deposit_ok(caller, amt, code),
                  [deposit EXCEPT !.loc =
                      IF da_deposit_ok(caller, amt, code)
                          THEN DAWith(caller, Put(DALoc(caller), K("used"),
                                                  Get(DALoc(caller), K("used")) + amt))
                          ELSE @])
    /\ UNCHANGED DAOthers

(* The first assert of update_lim, extend_exp, suspend, resume and revoke: *)
(* the caller is the authorizer of its own record, the compliance officer  *)
(* or the admin.  Or evaluates each of its operands: on a local state      *)
(* without the authorizer key the read gives the integer 0, the comparison *)
(* of the caller's address with it fails the program, and the call is      *)
(* rejected whoever the caller is.                                         *)
da_may(caller) ==
    /\ caller \in deposit.opted
    /\ K("authorizer") \in DOMAIN DALoc(caller)
    /\ \/ caller = Get(DALoc(caller), K("authorizer"))
       \/ caller = deposit.compliance
       \/ caller = deposit.admin

(* Lines 56-65: update_lim                                                 *)
da_update_ok(caller, new_max, new_tot) ==
    /\ da_may(caller)
    /\ Get(DALoc(caller), K("status")) = 0
    /\ new_max > 0
    /\ new_tot >= new_max
    /\ new_tot >= Get(DALoc(caller), K("used"))

DAUpdateLim(caller, new_max, new_tot) ==
    /\ deposit.program = "approval"
    /\ \E oc \in OnCompletions(da_update_ok(caller, new_max, new_tot)) :
           deposit' = Completed(oc, da_update_ok(caller, new_max, new_tot),
                  [deposit EXCEPT !.loc =
                      IF da_update_ok(caller, new_max, new_tot)
                          THEN DAWith(caller, Put(Put(DALoc(caller), K("max"), new_max),
                                                  K("total_lim"), new_tot))
                          ELSE @])
    /\ UNCHANGED DAOthers

(* Lines 66-74: extend_exp                                                 *)
da_extend_ok(caller, new_exp) ==
    /\ da_may(caller)
    /\ Get(DALoc(caller), K("status")) = 0
    /\ new_exp > Get(DALoc(caller), K("expires"))

DAExtendExp(caller, new_exp) ==
    /\ deposit.program = "approval"
    /\ \E oc \in OnCompletions(da_extend_ok(caller, new_exp)) :
           deposit' = Completed(oc, da_extend_ok(caller, new_exp),
                  [deposit EXCEPT !.loc =
                      IF da_extend_ok(caller, new_exp)
                          THEN DAWith(caller, Put(DALoc(caller), K("expires"), new_exp))
                          ELSE @])
    /\ UNCHANGED DAOthers

(* Lines 75-81: suspend.  active - 1 below 0 fails the call.               *)
da_suspend_ok(caller) ==
    /\ da_may(caller)
    /\ Get(DALoc(caller), K("status")) = 0
    /\ deposit.active >= 1

DASuspend(caller) ==
    LET ok == da_suspend_ok(caller)
    IN  /\ deposit.program = "approval"
        /\ \E oc \in OnCompletions(ok) :
               deposit' = Completed(oc, ok, [deposit EXCEPT
                         !.loc = IF ok THEN DAWith(caller, Put(DALoc(caller), K("status"), 1))
                                       ELSE @,
                         !.active = IF ok THEN @ - 1 ELSE @])
        /\ UNCHANGED DAOthers

(* Lines 82-88: resume                                                     *)
da_resume_ok(caller) ==
    /\ da_may(caller)
    /\ Get(DALoc(caller), K("status")) = 1

DAResume(caller) ==
    LET ok == da_resume_ok(caller)
    IN  /\ deposit.program = "approval"
        /\ \E oc \in OnCompletions(ok) :
               deposit' = Completed(oc, ok, [deposit EXCEPT
                         !.loc = IF ok THEN DAWith(caller, Put(DALoc(caller), K("status"), 0))
                                       ELSE @,
                         !.active = IF ok THEN @ + 1 ELSE @])
        /\ UNCHANGED DAOthers

(* Lines 89-95: revoke.  status (line 94) is the expression that reads the *)
(* key: the If of line 95 evaluates it after the put of the same line, on  *)
(* the status 2 just stored, and its branch is never taken.                *)
da_revoke_ok(caller) ==
    /\ da_may(caller)
    /\ Get(DALoc(caller), K("status")) # 2

da_revoke_local(caller) == Put(DALoc(caller), K("status"), 2)

DARevoke(caller) ==
    LET ok == da_revoke_ok(caller)
    IN  /\ deposit.program = "approval"
        /\ \E oc \in OnCompletions(ok) :
               deposit' = Completed(oc, ok, [deposit EXCEPT
                         !.loc = IF ok THEN DAWith(caller, da_revoke_local(caller)) ELSE @,
                         !.active = IF ok /\ Get(da_revoke_local(caller), K("status")) = 0
                                        THEN @ - 1 ELSE @])
        /\ UNCHANGED DAOthers

(* Lines 96-100: update_comp reads and writes globals only                 *)
DAUpdateComp(caller, new_off) ==
    LET ok == caller = deposit.admin /\ new_off # 0
    IN  /\ deposit.program = "approval"
        /\ \E oc \in OnCompletions(ok) :
               deposit' = Completed(oc, ok,
                          [deposit EXCEPT !.compliance = IF ok THEN new_off ELSE @])
        /\ UNCHANGED DAOthers

(* Lines 101-103: get_info asserts nothing and returns 1                   *)
DAGetInfo(caller) ==
    /\ deposit.program = "approval"
    /\ \E oc \in OnCompletions(TRUE) :
           deposit' = Completed(oc, TRUE, deposit)
    /\ UNCHANGED DAOthers

(* Line 104: the dispatch of approval_program                              *)
NextDeposit ==
    \/ DATick
    \/ \E s \in DAAccounts : DAOptIn(s)
    \/ \E s \in DAAccounts : DACloseOut(s)
    \/ \E s \in DAAccounts, a \in DAAddrs, mn \in 0..MaxAmount, mx \in 0..MaxAmount,
          tl \in 0..MaxTotalLim, tr \in {0, MaxTier + 1}, e \in 1..(MaxRound + 1),
          f \in {0, 1} :
            DACreate(s, a, mn, mx, tl, tr, e, f)
    \/ \E s \in DAAccounts, a \in 0..MaxAmount, c \in {0, 1} : DADeposit(s, a, c)
    \/ \E s \in DAAccounts, mx \in 0..MaxAmount, tl \in 0..MaxTotalLim : DAUpdateLim(s, mx, tl)
    \/ \E s \in DAAccounts, e \in 1..(MaxRound + 1) : DAExtendExp(s, e)
    \/ \E s \in DAAccounts : DASuspend(s)
    \/ \E s \in DAAccounts : DAResume(s)
    \/ \E s \in DAAccounts : DARevoke(s)
    \/ \E s \in DAAccounts, n \in DAOfficers : DAUpdateComp(s, n)
    \/ \E s \in DAAccounts : DAGetInfo(s)

SpecDeposit == InitDeposit /\ [][NextDeposit]_vars

(* The authorization records stored, and those of them that are active.    *)
DARecords == {h \in DAAccounts : K("authorizer") \in DOMAIN deposit.loc[h]}

DAActiveRecords == {h \in DARecords : Get(deposit.loc[h], K("status")) = 0}

(* C35: the global counter active follows the number of authorization    *)
(* records whose status is active (0): they are equal at creation, and     *)
(* every plain create, authorize, update, extend, suspend, resume and      *)
(* revoke call changes both by the same amount.                            *)
C35_ActiveCounts ==
    /\ deposit.active = Cardinality(DAActiveRecords)
    /\ [][ (deposit'.opted = deposit.opted /\ deposit'.program = "approval") =>
              deposit'.active - deposit.active
                  = Cardinality(DAActiveRecords') - Cardinality(DAActiveRecords) ]_vars

----------------------------------------------------------------------------
(* DIDManager (src/algorand/contracts/did_manager.py)                      *)

MaxDids == 3    \* approved create calls explored (total_dids is unbounded)

DIDAccounts == {1, 2}

(* Controller arguments: an identity, and 0 for one that is not 32 bytes.  *)
DIDControllers == {0, 1}

DIDOthers == <<trustVars, signer, escrow, deletion, deposit, channel, dex, preauth>>

DIDLoc(a) == did.loc[a]

(* A handler's outcome: when the call is approved the local state of s     *)
(* becomes f and active_dids changes by d; a rejected call changes         *)
(* nothing.                                                                *)
DIDStep(oc, op, ok, s, f, d) ==
    [did EXCEPT !.loc = IF ok THEN [@ EXCEPT ![s] = f] ELSE @,
                !.active_dids = IF ok THEN @ + d ELSE @,
                !.last = ExtCall(oc, op, ok, s, 0)]

(* on_creation (line 16)                                                   *)
InitDid ==
    /\ did = [ program |-> "approval", total_dids |-> 0, active_dids |-> 0, opted |-> {},
               loc |-> [a \in DIDAccounts |-> NoKeys], last |-> ExtNoCall ]
    /\ TrustNotDeployed
    /\ signer = NotDeployed /\ escrow = NotDeployed /\ deletion = NotDeployed
    /\ deposit = NotDeployed /\ channel = NotDeployed /\ dex = NotDeployed
    /\ preauth = NotDeployed

(* Line 37: OptIn and CloseOut are approved.  Line 40: clear_state.        *)
DIDOptIn(s) ==
    /\ did.program = "approval"
    /\ did' = [did EXCEPT !.opted = @ \cup {s},
                          !.last = ExtCall("OptIn", "optin", s \notin did.opted, s, 0)]
    /\ UNCHANGED DIDOthers

(* CloseOut, and ClearState: the ledger carries out a ClearState whatever  *)
(* program is installed, and after the application was deleted as well.    *)
DIDCloseOut(s) ==
    LET ok == s \in did.opted
    IN  /\ did' = [did EXCEPT !.opted = IF ok THEN @ \ {s} ELSE @,
                              !.loc = IF ok THEN [@ EXCEPT ![s] = NoKeys] ELSE @,
                              !.last = ExtCall(IF did.program = "approval" THEN "CloseOut" ELSE "ClearState",
                                                "closeout", ok, s, 0)]
        /\ UNCHANGED DIDOthers

(* Lines 17-21: create_did                                                 *)
did_create_ok(subject, controller) ==
    /\ subject \in did.opted
    /\ controller # 0

did_create_local(subject, controller) ==
    Put(Put(Put(DIDLoc(subject), K("controller"), controller), K("status"), 0),
        K("version"), 1)

DIDCreate(subject, controller) ==
    LET ok == did_create_ok(subject, controller)
    IN  /\ did.program = "approval"
        /\ did.total_dids < MaxDids
        /\ \E oc \in OnCompletions(ok) :
               did' = Completed(oc, ok,
                     [DIDStep(oc, "create", ok, subject,
                              did_create_local(subject, controller), 1)
                         EXCEPT !.total_dids = IF ok THEN @ + 1 ELSE @])
        /\ UNCHANGED DIDOthers

(* Lines 22-26: deactivate_did.  active_dids - 1 below 0 fails the call.   *)
did_deactivate_ok(caller) ==
    /\ caller \in did.opted
    /\ Get(DIDLoc(caller), K("status")) = 0
    /\ did.active_dids >= 1

DIDDeactivate(caller) ==
    /\ did.program = "approval"
    /\ \E oc \in OnCompletions(did_deactivate_ok(caller)) :
           did' = Completed(oc, did_deactivate_ok(caller),
                        DIDStep(oc, "deactivate", did_deactivate_ok(caller), caller,
                                Put(DIDLoc(caller), K("status"), 1), -1))
    /\ UNCHANGED DIDOthers

(* Lines 27-31: reactivate_did                                             *)
did_reactivate_ok(caller) ==
    /\ caller \in did.opted
    /\ Get(DIDLoc(caller), K("status")) = 1

DIDReactivate(caller) ==
    /\ did.program = "approval"
    /\ \E oc \in OnCompletions(did_reactivate_ok(caller)) :
           did' = Completed(oc, did_reactivate_ok(caller),
                        DIDStep(oc, "reactivate", did_reactivate_ok(caller), caller,
                                Put(DIDLoc(caller), K("status"), 0), 1))
    /\ UNCHANGED DIDOthers

(* Lines 32-36: revoke_did.  status (line 34) is the expression that reads *)
(* the key: the If of line 35 evaluates it after the put of the same line, *)
(* on the status 2 just stored, and its branch is never taken.             *)
did_revoke_ok(caller) ==
    /\ caller \in did.opted
    /\ Get(DIDLoc(caller), K("status")) # 2

did_revoke_local(caller) == Put(DIDLoc(caller), K("status"), 2)

DIDRevoke(caller) ==
    /\ did.program = "approval"
    /\ \E oc \in OnCompletions(did_revoke_ok(caller)) :
           did' = Completed(oc, did_revoke_ok(caller),
                        DIDStep(oc, "revoke", did_revoke_ok(caller), caller,
                                did_revoke_local(caller),
                                IF Get(did_revoke_local(caller), K("status")) = 0
                                    THEN -1 ELSE 0))
    /\ UNCHANGED DIDOthers

(* Line 37: the dispatch of approval_program                               *)
NextDid ==
    \/ \E s \in DIDAccounts : DIDOptIn(s)
    \/ \E s \in DIDAccounts : DIDCloseOut(s)
    \/ \E s \in DIDAccounts, c \in DIDControllers : DIDCreate(s, c)
    \/ \E s \in DIDAccounts : DIDDeactivate(s)
    \/ \E s \in DIDAccounts : DIDReactivate(s)
    \/ \E s \in DIDAccounts : DIDRevoke(s)

SpecDid == InitDid /\ [][NextDid]_vars

(* C36: revocation is terminal: a create, deactivate, reactivate or revoke *)
(* call made while the DID of subject h is revoked (2) leaves it revoked   *)
(* and, when h is the caller, does not increment active_dids.              *)
C36_RevocationTerminal ==
    [][ \A h \in DIDAccounts :
          (/\ Get(did.loc[h], K("status")) = 2
           /\ did'.last.op \in {"create", "deactivate", "reactivate", "revoke"}
           /\ did'.last.oc = "NoOp")
              => /\ Get(did'.loc[h], K("status")) = 2
                 /\ did'.last.sender = h => did'.active_dids <= did.active_dids ]_vars

----------------------------------------------------------------------------
(* PaymentChannels (src/algorand/contracts/payment_channels.py)            *)

MaxChannels == 2    \* create calls explored (next_ch_id is unbounded)
MaxFunds    == 2    \* largest channel balance explored
MaxExpires  == 2    \* largest expiry round explored

PCAccounts == {1, 2}

PCOthers == <<trustVars, signer, escrow, deletion, deposit, did, dex, preauth>>

PCLoc(a) == channel.loc[a]

(* A handler's outcome: the local state of s becomes f when the call is    *)
(* approved; a rejected call changes nothing.                              *)
PCStep(ok, s, f) ==
    [channel EXCEPT !.loc = IF ok THEN [@ EXCEPT ![s] = f] ELSE @]

(* on_creation (line 22)                                                   *)
InitChannel ==
    /\ channel = [ program |-> "approval", next_ch_id |-> 1, round |-> 0, opted |-> {},
                   loc |-> [a \in PCAccounts |-> NoKeys] ]
    /\ TrustNotDeployed
    /\ signer = NotDeployed /\ escrow = NotDeployed /\ deletion = NotDeployed
    /\ deposit = NotDeployed /\ did = NotDeployed /\ dex = NotDeployed
    /\ preauth = NotDeployed

PCTick ==
    /\ channel.program = "approval"
    /\ channel.round < MaxRound
    /\ channel' = [channel EXCEPT !.round = @ + 1]
    /\ UNCHANGED PCOthers

(* Lines 117-118: OptIn and CloseOut are approved.  clear_state likewise.  *)
PCOptIn(s) ==
    /\ channel.program = "approval"
    /\ channel' = [channel EXCEPT !.opted = @ \cup {s}]
    /\ UNCHANGED PCOthers

(* CloseOut, and ClearState: the ledger carries out a ClearState whatever  *)
(* program is installed, and after the application was deleted as well.    *)
PCCloseOut(s) ==
    LET ok == s \in channel.opted
    IN  /\ channel' = [channel EXCEPT !.opted = IF ok THEN @ \ {s} ELSE @,
                                      !.loc = IF ok THEN [@ EXCEPT ![s] = NoKeys] ELSE @]
        /\ UNCHANGED PCOthers

(* Lines 24-33: create_channel                                             *)
pc_create_ok(sender, recipient, amount, duration, challenge_period) ==
    /\ sender \in channel.opted
    /\ amount > 0
    /\ duration > 0
    /\ challenge_period > 0
    /\ sender # recipient

pc_create_local(sender, recipient, amount, duration, challenge_period) ==
    LET f1  == Put(PCLoc(sender), K("sender"), sender)
        f2  == Put(f1, K("recipient"), recipient)
        f3  == Put(f2, K("token"), 0)
        f4  == Put(f3, K("balance"), amount)
        f5  == Put(f4, K("claimed"), 0)
        f6  == Put(f5, K("nonce"), 0)
        f7  == Put(f6, K("expires"), channel.round + duration)
        f8  == Put(f7, K("status"), 0)
        f9  == Put(f8, K("disp_at"), 0)
        f10 == Put(f9, K("challenge"), challenge_period)
    IN  f10

PCCreate(sender, recipient, amount, duration, challenge_period) ==
    LET ok == pc_create_ok(sender, recipient, amount, duration, challenge_period)
    IN  /\ channel.program = "approval"
        /\ channel.next_ch_id <= MaxChannels
        /\ channel.round + duration <= MaxExpires
        /\ \E oc \in OnCompletions(ok) :
               channel' = Completed(oc, ok,
                         [PCStep(ok, sender, pc_create_local(sender, recipient, amount,
                                                             duration, challenge_period))
                             EXCEPT !.next_ch_id = IF ok THEN @ + 1 ELSE @])
        /\ UNCHANGED PCOthers

(* Lines 35-42: fund_channel                                               *)
pc_fund_ok(sender, amount) ==
    /\ sender \in channel.opted
    /\ amount > 0
    /\ Get(PCLoc(sender), K("status")) = 0
    /\ Get(PCLoc(sender), K("sender")) = sender

PCFund(sender, amount) ==
    /\ channel.program = "approval"
    /\ Get(PCLoc(sender), K("balance")) + amount <= MaxFunds
    /\ \E oc \in OnCompletions(pc_fund_ok(sender, amount)) :
           channel' = Completed(oc, pc_fund_ok(sender, amount),
                            PCStep(pc_fund_ok(sender, amount), sender,
                                   Put(PCLoc(sender), K("balance"),
                                       Get(PCLoc(sender), K("balance")) + amount)))
    /\ UNCHANGED PCOthers

(* Lines 44-51: extend_channel                                             *)
pc_extend_ok(sender, additional_duration) ==
    /\ sender \in channel.opted
    /\ additional_duration > 0
    /\ Get(PCLoc(sender), K("status")) = 0
    /\ Get(PCLoc(sender), K("sender")) = sender

PCExtend(sender, additional_duration) ==
    /\ channel.program = "approval"
    /\ Get(PCLoc(sender), K("expires")) + additional_duration <= MaxExpires
    /\ \E oc \in OnCompletions(pc_extend_ok(sender, additional_duration)) :
           channel' = Completed(oc, pc_extend_ok(sender, additional_duration),
                            PCStep(pc_extend_ok(sender, additional_duration), sender,
                                   Put(PCLoc(sender), K("expires"),
                                       Get(PCLoc(sender), K("expires"))
                                           + additional_duration)))
    /\ UNCHANGED PCOthers

(* Lines 53-68: claim_payment.  Every field is read from the local state   *)
(* of the caller.                                                          *)
pc_claim_ok(caller, claim_amount, nonce) ==
    /\ caller \in channel.opted
    /\ caller = Get(PCLoc(caller), K("recipient"))
    /\ Get(PCLoc(caller), K("status")) = 0
    /\ channel.round < Get(PCLoc(caller), K("expires"))
    /\ nonce > Get(PCLoc(caller), K("nonce"))
    /\ claim_amount <= Get(PCLoc(caller), K("balance"))
    /\ claim_amount > Get(PCLoc(caller), K("claimed"))

pc_claim_local(caller, claim_amount, nonce) ==
    LET f1 == Put(PCLoc(caller), K("claimed"), claim_amount)
        f2 == Put(f1, K("nonce"), nonce)
    IN  IF claim_amount >= Get(PCLoc(caller), K("balance"))
            THEN Put(f2, K("status"), 2)
            ELSE f2

PCClaim(caller, claim_amount, nonce) ==
    /\ channel.program = "approval"
    /\ \E oc \in OnCompletions(pc_claim_ok(caller, claim_amount, nonce)) :
           channel' = Completed(oc, pc_claim_ok(caller, claim_amount, nonce),
                            PCStep(pc_claim_ok(caller, claim_amount, nonce), caller,
                                   pc_claim_local(caller, claim_amount, nonce)))
    /\ UNCHANGED PCOthers

(* Lines 70-79: close_cooperative                                          *)
pc_coop_ok_any_amount(caller, final_amount, group_size) ==
    /\ caller \in channel.opted
    /\ Get(PCLoc(caller), K("status")) = 0
    /\ group_size >= 2

pc_coop_ok(caller, final_amount, group_size) ==
    /\ caller \in channel.opted
    /\ Get(PCLoc(caller), K("status")) = 0
    /\ final_amount <= Get(PCLoc(caller), K("balance"))
    /\ group_size >= 2

PCCloseCooperative(caller, final_amount, group_size) ==
    /\ channel.program = "approval"
    /\ \E oc \in OnCompletions(pc_coop_ok(caller, final_amount, group_size)) :
           channel' = Completed(oc, pc_coop_ok(caller, final_amount, group_size),
                            PCStep(pc_coop_ok(caller, final_amount, group_size), caller,
                                   Put(Put(PCLoc(caller), K("status"), 2),
                                       K("claimed"), final_amount)))
    /\ UNCHANGED PCOthers

(* Lines 81-93: close_unilateral                                           *)
pc_uni_ok(caller) ==
    /\ caller \in channel.opted
    /\ \/ caller = Get(PCLoc(caller), K("sender"))
       \/ caller = Get(PCLoc(caller), K("recipient"))
    /\ channel.round >= Get(PCLoc(caller), K("expires"))
    /\ Get(PCLoc(caller), K("status")) = 1 =>
           channel.round >= Get(PCLoc(caller), K("disp_at"))
                                + Get(PCLoc(caller), K("challenge"))

PCCloseUnilateral(caller) ==
    /\ channel.program = "approval"
    /\ \E oc \in OnCompletions(pc_uni_ok(caller)) :
           channel' = Completed(oc, pc_uni_ok(caller),
                            PCStep(pc_uni_ok(caller), caller,
                                   Put(PCLoc(caller), K("status"), 2)))
    /\ UNCHANGED PCOthers

(* Lines 95-100: dispute_claim                                             *)
pc_dispute_ok(caller) ==
    /\ caller \in channel.opted
    /\ caller = Get(PCLoc(caller), K("sender"))
    /\ Get(PCLoc(caller), K("status")) = 0

PCDispute(caller) ==
    /\ channel.program = "approval"
    /\ \E oc \in OnCompletions(pc_dispute_ok(caller)) :
           channel' = Completed(oc, pc_dispute_ok(caller),
                            PCStep(pc_dispute_ok(caller), caller,
                                   Put(Put(PCLoc(caller), K("status"), 1),
                                       K("disp_at"), channel.round)))
    /\ UNCHANGED PCOthers

(* Lines 102-105: get_channel asserts nothing and returns 1                *)
PCGet(caller) ==
    /\ channel.program = "approval"
    /\ \E oc \in OnCompletions(TRUE) :
           channel' = Completed(oc, TRUE, channel)
    /\ UNCHANGED PCOthers

(* Lines 107-113: get_available_balance reads the caller's local state;    *)
(* balance - claimed below 0 fails the call.                               *)
pc_available_ok(caller) ==
    /\ caller \in channel.opted
    /\ Get(PCLoc(caller), K("balance")) >= Get(PCLoc(caller), K("claimed"))

PCGetAvailable(caller) ==
    /\ channel.program = "approval"
    /\ \E oc \in OnCompletions(pc_available_ok(caller)) :
           channel' = Completed(oc, pc_available_ok(caller), channel)
    /\ UNCHANGED PCOthers

(* Lines 115-128: the dispatch of approval_program                         *)
NextChannel ==
    \/ PCTick
    \/ \E s \in PCAccounts : PCOptIn(s)
    \/ \E s \in PCAccounts : PCCloseOut(s)
    \/ \E s \in PCAccounts, r \in PCAccounts, a \in 0..MaxFunds, d \in 0..1, c \in 0..1 :
          PCCreate(s, r, a, d, c)
    \/ \E s \in PCAccounts, a \in 0..1 : PCFund(s, a)
    \/ \E s \in PCAccounts, d \in 0..1 : PCExtend(s, d)
    \/ \E s \in PCAccounts, a \in 0..MaxFunds, n \in 0..1 : PCClaim(s, a, n)
    \/ \E s \in PCAccounts, a \in 0..(MaxFunds + 1), g \in 1..2 : PCCloseCooperative(s, a, g)
    \/ \E s \in PCAccounts : PCCloseUnilateral(s)
    \/ \E s \in PCAccounts : PCDispute(s)
    \/ \E s \in PCAccounts : PCGet(s)
    \/ \E s \in PCAccounts : PCGetAvailable(s)

SpecChannel == InitChannel /\ [][NextChannel]_vars

(* C38: in every reachable state of a channel the claimed amount is at     *)
(* most the funded balance.                                                *)
C38_ClaimedWithinBalance ==
    \A h \in PCAccounts :
        Get(channel.loc[h], K("claimed")) <= Get(channel.loc[h], K("balance"))

(* C38, witness: a channel closed cooperatively with its whole funded      *)
(* balance claimed.                                                        *)
C38_Witness ==
    \E h \in PCAccounts :
        /\ Get(channel.loc[h], K("status")) = 2
        /\ Get(channel.loc[h], K("claimed")) = MaxFunds
        /\ Get(channel.loc[h], K("balance")) = MaxFunds

----------------------------------------------------------------------------
(* DEXOrders (src/algorand/contracts/dex_orders.py)                        *)

MaxOrders      == 2    \* create calls explored (next_ord_id is unbounded)
MaxTrades      == 2    \* approved fill calls explored (total_trades is unbounded)
MaxOrderAmount == 2    \* largest order amount a caller passes

(* Every handler reads and writes the local state of its caller only: one *)
(* account is explored.                                                    *)
DXAccounts == {1}

(* The optional arguments <<min_fill, post_only>> of create.               *)
DXOptions == {<<0, 0>>, <<2, 1>>}

(* Token pairs <<base, quote>>: a proper pair, and one with equal tokens.  *)
DXTokenPairs == {<<1, 2>>, <<1, 1>>}

DXOthers == <<trustVars, signer, escrow, deletion, deposit, did, channel, preauth>>

DXLoc(a) == dex.loc[a]

(* A handler's outcome: the local state of s becomes f when the call is    *)
(* approved; a rejected call changes nothing.                              *)
DXStep(oc, op, ok, s, f) ==
    [dex EXCEPT !.loc = IF ok THEN [@ EXCEPT ![s] = f] ELSE @,
                !.last = ExtCall(oc, op, ok, s, 0)]

(* on_creation (line 30)                                                   *)
InitDex ==
    /\ dex = [ program |-> "approval", next_ord_id |-> 1, total_ords |-> 0, total_vol |-> 0,
               total_trades |-> 0, round |-> 0, opted |-> {},
               loc |-> [a \in DXAccounts |-> NoKeys], last |-> ExtNoCall ]
    /\ TrustNotDeployed
    /\ signer = NotDeployed /\ escrow = NotDeployed /\ deletion = NotDeployed
    /\ deposit = NotDeployed /\ did = NotDeployed /\ channel = NotDeployed
    /\ preauth = NotDeployed

DXTick ==
    /\ dex.program = "approval"
    /\ dex.round < MaxRound
    /\ dex' = [dex EXCEPT !.round = @ + 1, !.last = ExtCall("NoOp", "tick", TRUE, 0, 0)]
    /\ UNCHANGED DXOthers

(* Line 90: OptIn and CloseOut are approved.  Line 94: clear_state.        *)
DXOptIn(s) ==
    /\ dex.program = "approval"
    /\ dex' = [dex EXCEPT !.opted = @ \cup {s},
                          !.last = ExtCall("OptIn", "optin", s \notin dex.opted, s, 0)]
    /\ UNCHANGED DXOthers

(* CloseOut, and ClearState: the ledger carries out a ClearState whatever  *)
(* program is installed, and after the application was deleted as well.    *)
DXCloseOut(s) ==
    LET ok == s \in dex.opted
    IN  /\ dex' = [dex EXCEPT !.opted = IF ok THEN @ \ {s} ELSE @,
                              !.loc = IF ok THEN [@ EXCEPT ![s] = NoKeys] ELSE @,
                              !.last = ExtCall(IF dex.program = "approval" THEN "CloseOut" ELSE "ClearState",
                                                "closeout", ok, s, 0)]
        /\ UNCHANGED DXOthers

(* Lines 32-45: create_order                                               *)
dx_create_ok(creator, tokens, side, order_type, amount, price, expires_at, post_only) ==
    /\ creator \in dex.opted
    /\ amount > 0
    /\ side \in {0, 1}
    /\ order_type \in {0, 1}
    /\ tokens[1] # tokens[2]
    /\ order_type = 0 => price > 0
    /\ expires_at > 0 => expires_at > dex.round
    /\ post_only = 1 => order_type = 0

dx_create_local(creator, tokens, side, order_type, amount, price, expires_at, min_fill, post_only) ==
    LET f1  == Put(DXLoc(creator), K("id"), dex.next_ord_id)
        f2  == Put(f1, K("creator"), creator)
        f3  == Put(f2, K("base_token"), tokens[1])
        f4  == Put(f3, K("quote_token"), tokens[2])
        f5  == Put(f4, K("side"), side)
        f6  == Put(f5, K("type"), order_type)
        f7  == Put(f6, K("amount"), amount)
        f8  == Put(f7, K("filled"), 0)
        f9  == Put(f8, K("price"), price)
        f10 == Put(f9, K("status"), 0)
        f11 == Put(f10, K("created"), dex.round)
        f12 == Put(f11, K("updated"), dex.round)
        f13 == Put(f12, K("expires"), expires_at)
        f14 == Put(f13, K("min_fill"), min_fill)
        f15 == Put(f14, K("post_only"), post_only)
    IN  f15

DXCreate(creator, tokens, side, order_type, amount, price, expires_at, min_fill, post_only) ==
    LET ok == dx_create_ok(creator, tokens, side, order_type, amount, price,
                           expires_at, post_only)
    IN  /\ dex.program = "approval"
        /\ dex.next_ord_id <= MaxOrders
        /\ \E oc \in OnCompletions(ok) :
               dex' = Completed(oc, ok,
                     [DXStep(oc, "create", ok, creator,
                             dx_create_local(creator, tokens, side, order_type, amount,
                                             price, expires_at, min_fill, post_only))
                         EXCEPT !.next_ord_id = IF ok THEN @ + 1 ELSE @,
                                !.total_ords = IF ok THEN @ + 1 ELSE @])
        /\ UNCHANGED DXOthers

(* Lines 47-62: fill_order.  remaining = amount - filled: below 0 fails.   *)
(* new_filled (line 61) is the expression filled + fill_amount: the If of   *)
(* line 62 evaluates it again after the put of filled, on the amount just  *)
(* stored.                                                                 *)
dx_fill_ok(caller, fill_amount, max_price) ==
    /\ caller \in dex.opted
    /\ Get(DXLoc(caller), K("status")) = 0
    /\ Get(DXLoc(caller), K("expires")) > 0 => dex.round < Get(DXLoc(caller), K("expires"))
    /\ fill_amount > 0
    /\ Get(DXLoc(caller), K("amount")) >= Get(DXLoc(caller), K("filled"))
    /\ fill_amount <= Get(DXLoc(caller), K("amount")) - Get(DXLoc(caller), K("filled"))
    /\ Get(DXLoc(caller), K("side")) = 0 => max_price >= Get(DXLoc(caller), K("price"))
    /\ Get(DXLoc(caller), K("side")) = 1 => max_price <= Get(DXLoc(caller), K("price"))
    /\ Get(DXLoc(caller), K("min_fill")) > 0 =>
           fill_amount >= Get(DXLoc(caller), K("min_fill"))

dx_fill_local(caller, fill_amount) ==
    LET f1 == Put(DXLoc(caller), K("filled"), Get(DXLoc(caller), K("filled")) + fill_amount)
        f2 == Put(f1, K("updated"), dex.round)
    IN  IF Get(f2, K("filled")) + fill_amount >= Get(f2, K("amount"))
            THEN Put(f2, K("status"), 1)
            ELSE f2

DXFill(caller, fill_amount, max_price) ==
    LET ok == dx_fill_ok(caller, fill_amount, max_price)
    IN  /\ dex.program = "approval"
        /\ dex.total_trades < MaxTrades
        /\ \E oc \in OnCompletions(ok) :
               dex' = Completed(oc, ok,
                     [DXStep(oc, "fill", ok, caller, dx_fill_local(caller, fill_amount))
                         EXCEPT !.total_vol = IF ok THEN @ + fill_amount ELSE @,
                                !.total_trades = IF ok THEN @ + 1 ELSE @])
        /\ UNCHANGED DXOthers

(* Lines 64-70: cancel_order                                               *)
dx_cancel_ok(caller) ==
    /\ caller \in dex.opted
    /\ caller = Get(DXLoc(caller), K("creator"))
    /\ Get(DXLoc(caller), K("status")) = 0

DXCancel(caller) ==
    /\ dex.program = "approval"
    /\ \E oc \in OnCompletions(dx_cancel_ok(caller)) :
           dex' = Completed(oc, dx_cancel_ok(caller),
                        DXStep(oc, "cancel", dx_cancel_ok(caller), caller,
                               Put(Put(DXLoc(caller), K("status"), 2),
                                   K("updated"), dex.round)))
    /\ UNCHANGED DXOthers

(* Lines 72-78: mark_expired                                               *)
dx_expired_ok(caller) ==
    /\ caller \in dex.opted
    /\ Get(DXLoc(caller), K("status")) = 0
    /\ Get(DXLoc(caller), K("expires")) > 0
    /\ dex.round >= Get(DXLoc(caller), K("expires"))

DXMarkExpired(caller) ==
    /\ dex.program = "approval"
    /\ \E oc \in OnCompletions(dx_expired_ok(caller)) :
           dex' = Completed(oc, dx_expired_ok(caller),
                        DXStep(oc, "mark_expired", dx_expired_ok(caller), caller,
                               Put(Put(DXLoc(caller), K("status"), 3),
                                   K("updated"), dex.round)))
    /\ UNCHANGED DXOthers

(* Lines 80-88: update_price                                               *)
dx_price_ok(caller, new_price) ==
    /\ caller \in dex.opted
    /\ caller = Get(DXLoc(caller), K("creator"))
    /\ Get(DXLoc(caller), K("type")) = 0
    /\ Get(DXLoc(caller), K("status")) = 0
    /\ new_price > 0

DXUpdatePrice(caller, new_price) ==
    /\ dex.program = "approval"
    /\ \E oc \in OnCompletions(dx_price_ok(caller, new_price)) :
           dex' = Completed(oc, dx_price_ok(caller, new_price),
                        DXStep(oc, "update_price", dx_price_ok(caller, new_price), caller,
                               Put(Put(DXLoc(caller), K("price"), new_price),
                                   K("updated"), dex.round)))
    /\ UNCHANGED DXOthers

(* Line 90: the dispatch of approval_program                               *)
NextDex ==
    \/ DXTick
    \/ \E s \in DXAccounts : DXOptIn(s)
    \/ \E s \in DXAccounts : DXCloseOut(s)
    \/ \E s \in DXAccounts, tk \in DXTokenPairs, sd \in 0..2, ty \in 0..2,
          a \in 0..MaxOrderAmount, p \in 0..1, e \in 0..MaxRound, o \in DXOptions :
            DXCreate(s, tk, sd, ty, a, p, e, o[1], o[2])
    \/ \E s \in DXAccounts, a \in 0..(MaxOrderAmount + 1), p \in 0..1 : DXFill(s, a, p)
    \/ \E s \in DXAccounts : DXCancel(s)
    \/ \E s \in DXAccounts : DXMarkExpired(s)
    \/ \E s \in DXAccounts, p \in 0..2 : DXUpdatePrice(s, p)

SpecDex == InitDex /\ [][NextDex]_vars

(* The accounts that hold an order.                                        *)
DXOrders == {h \in DXAccounts : K("creator") \in DOMAIN dex.loc[h]}

(* C39, the state part: an order's filled amount is at most its amount,    *)
(* and its status is filled (1) exactly when filled = amount.              *)
DXFilledBounded ==
    \A h \in DXOrders :
        /\ Get(dex.loc[h], K("filled")) <= Get(dex.loc[h], K("amount"))
        /\ Get(dex.loc[h], K("status")) = 1
               <=> Get(dex.loc[h], K("filled")) = Get(dex.loc[h], K("amount"))

(* C39: filled <= amount and status = 1 exactly when filled = amount in    *)
(* every reachable state of an order; and a fill is approved only on an    *)
(* open order (status 0), so that a filled, cancelled or expired order is  *)
(* never filled further.                                                   *)
C39_FillOnlyOpenOrders ==
    /\ []DXFilledBounded
    /\ [][ (dex'.last.op = "fill" /\ dex'.last.oc = "NoOp" /\ dex'.last.ok) =>
              /\ dex'.last.sender \in DXOrders
              /\ Get(dex.loc[dex'.last.sender], K("status")) = 0 ]_vars

----------------------------------------------------------------------------
(* DepositPreauth (src/algorand/contracts/deposit_preauth.py)              *)

MaxPreauths == 2    \* approved create calls explored (total_preauths is unbounded)

PAAccounts == {1, 2}

(* Address arguments: the identities, and 0 for one that is not 32 bytes.  *)
PAAddrs == PAAccounts \cup {0}

PAOthers == <<trustVars, signer, escrow, deletion, deposit, did, channel, dex>>

PALoc(a) == preauth.loc[a]

(* A handler's outcome: the local state of s becomes f when the call is    *)
(* approved; a rejected call changes nothing.                              *)
PAStep(oc, op, ok, s, f) ==
    [preauth EXCEPT !.loc = IF ok THEN [@ EXCEPT ![s] = f] ELSE @,
                    !.last = ExtCall(oc, op, ok, s, 0)]

(* on_creation (lines 27-32)                                               *)
InitPreauth ==
    /\ preauth = [ program |-> "approval", total_preauths |-> 0, used_preauths |-> 0,
                   round |-> 0,
                   opted |-> {}, loc |-> [a \in PAAccounts |-> NoKeys],
                   last |-> ExtNoCall ]
    /\ TrustNotDeployed
    /\ signer = NotDeployed /\ escrow = NotDeployed /\ deletion = NotDeployed
    /\ deposit = NotDeployed /\ did = NotDeployed /\ channel = NotDeployed
    /\ dex = NotDeployed

PATick ==
    /\ preauth.program = "approval"
    /\ preauth.round < MaxRound
    /\ preauth' = [preauth EXCEPT !.round = @ + 1, !.last = ExtCall("NoOp", "tick", TRUE, 0, 0)]
    /\ UNCHANGED PAOthers

(* Lines 105-106: OptIn and CloseOut are approved.  Line 115: clear_state. *)
PAOptIn(s) ==
    /\ preauth.program = "approval"
    /\ preauth' = [preauth EXCEPT !.opted = @ \cup {s},
                                  !.last = ExtCall("OptIn", "optin", s \notin preauth.opted, s, 0)]
    /\ UNCHANGED PAOthers

(* CloseOut, and ClearState: the ledger carries out a ClearState whatever  *)
(* program is installed, and after the application was deleted as well.    *)
PACloseOut(s) ==
    LET ok == s \in preauth.opted
    IN  /\ preauth' = [preauth EXCEPT !.opted = IF ok THEN @ \ {s} ELSE @,
                                      !.loc = IF ok THEN [@ EXCEPT ![s] = NoKeys] ELSE @,
                                      !.last = ExtCall(IF preauth.program = "approval" THEN "CloseOut" ELSE "ClearState",
                                                "closeout", ok, s, 0)]
        /\ UNCHANGED PAOthers

(* Lines 34-54: create_preauth                                             *)
pa_create_ok(authorizer, authorized_addr, expires_at) ==
    /\ authorizer \in preauth.opted
    /\ authorized_addr # 0
    /\ authorizer # authorized_addr
    /\ expires_at > 0 => expires_at > preauth.round

pa_create_local(authorizer, authorized_addr, expires_at) ==
    LET f1 == Put(PALoc(authorizer), K("authorizer"), authorizer)
        f2 == Put(f1, K("authorized"), authorized_addr)
        f3 == Put(f2, K("asset"), 0)
        f4 == Put(f3, K("created"), preauth.round)
        f5 == Put(f4, K("expires"), expires_at)
        f6 == Put(f5, K("status"), 0)
        f7 == Put(f6, K("used_at"), 0)
    IN  f7

PACreate(authorizer, authorized_addr, expires_at) ==
    LET ok == pa_create_ok(authorizer, authorized_addr, expires_at)
    IN  /\ preauth.program = "approval"
        /\ preauth.total_preauths < MaxPreauths
        /\ \E oc \in OnCompletions(ok) :
               preauth' = Completed(oc, ok,
                         [PAStep(oc, "create", ok, authorizer,
                                 pa_create_local(authorizer, authorized_addr, expires_at))
                             EXCEPT !.total_preauths = IF ok THEN @ + 1 ELSE @])
        /\ UNCHANGED PAOthers

(* Lines 56-72: use_preauth.  Every field is read from the local state of  *)
(* the caller.                                                             *)
pa_use_ok(caller) ==
    /\ caller \in preauth.opted
    /\ caller = Get(PALoc(caller), K("authorized"))
    /\ Get(PALoc(caller), K("status")) = 0
    /\ Get(PALoc(caller), K("expires")) > 0 =>
           preauth.round < Get(PALoc(caller), K("expires"))

PAUse(caller) ==
    LET ok == pa_use_ok(caller)
    IN  /\ preauth.program = "approval"
        /\ \E oc \in OnCompletions(ok) :
               preauth' = Completed(oc, ok,
                         [PAStep(oc, "use", ok, caller,
                                 Put(Put(PALoc(caller), K("status"), 1),
                                     K("used_at"), preauth.round))
                             EXCEPT !.used_preauths = IF ok THEN @ + 1 ELSE @])
        /\ UNCHANGED PAOthers

(* Lines 74-86: revoke_preauth                                             *)
pa_revoke_ok(caller) ==
    /\ caller \in preauth.opted
    /\ caller = Get(PALoc(caller), K("authorizer"))
    /\ Get(PALoc(caller), K("status")) = 0

PARevoke(caller) ==
    /\ preauth.program = "approval"
    /\ \E oc \in OnCompletions(pa_revoke_ok(caller)) :
           preauth' = Completed(oc, pa_revoke_ok(caller),
                            PAStep(oc, "revoke", pa_revoke_ok(caller), caller,
                                   Put(PALoc(caller), K("status"), 2)))
    /\ UNCHANGED PAOthers

(* Lines 88-101: mark_expired                                              *)
pa_expired_ok(caller) ==
    /\ caller \in preauth.opted
    /\ Get(PALoc(caller), K("status")) = 0
    /\ Get(PALoc(caller), K("expires")) > 0
    /\ preauth.round >= Get(PALoc(caller), K("expires"))

PAMarkExpired(caller) ==
    /\ preauth.program = "approval"
    /\ \E oc \in OnCompletions(pa_expired_ok(caller)) :
           preauth' = Completed(oc, pa_expired_ok(caller),
                            PAStep(oc, "mark_expired", pa_expired_ok(caller), caller,
                                   Put(PALoc(caller), K("status"), 3)))
    /\ UNCHANGED PAOthers

(* Lines 103-111: the dispatch of approval_program                         *)
NextPreauth ==
    \/ PATick
    \/ \E s \in PAAccounts : PAOptIn(s)
    \/ \E s \in PAAccounts : PACloseOut(s)
    \/ \E s \in PAAccounts, a \in PAAddrs, e \in 0..(MaxRound + 1) : PACreate(s, a, e)
    \/ \E s \in PAAccounts : PAUse(s)
    \/ \E s \in PAAccounts : PARevoke(s)
    \/ \E s \in PAAccounts : PAMarkExpired(s)

SpecPreauth == InitPreauth /\ [][NextPreauth]_vars

(* No use is ever approved: use_preauth compares the caller with the       *)
(* authorized address in the caller's own local state, where create has    *)
(* stored an address other than the caller.  No pre-authorization reaches  *)
(* the status used (1) and used_preauths stays 0.                          *)
PANeverUsed ==
    /\ preauth.used_preauths = 0
    /\ \A h \in PAAccounts : Get(preauth.loc[h], K("status")) # 1
    /\ preauth.last.op = "use" => ~preauth.last.ok

====
